---- MODULE Spec2Model ----
(***************************************************************************)
(* Conversation context management of the Keji backend: the turn handlers  *)
(* of chat.py (HTTP) and websocket.py (WebSocket), the context manager     *)
(* (context_manager.py) and the background workers (workers.py), over one  *)
(* user's conversations and messages.                                      *)
(*                                                                         *)
(* A text is abstracted to its provenance tag and its sentences; a         *)
(* sentence is its length in characters (separator included) and the       *)
(* length of the whitespace that ends it.  Times are counted in units of   *)
(* ten minutes.  The summarizer and the response generator are external:   *)
(* a call that is in flight is a position of the calling task, and its     *)
(* result is drawn when the call returns.                                  *)
(***************************************************************************)
EXTENDS Integers, Sequences, FiniteSets, TLC

(* ---------------------------------------------------------------------- *)
(* Program constants                                                      *)
(* ---------------------------------------------------------------------- *)
TOKEN_THRESHOLD == 3000
RECENT_MESSAGES_COUNT == 10
TOKEN_THRESHOLD_FOR_SUMMARY == 2000
RECENT_MESSAGES_TO_KEEP == 10
MAX_ATTACHMENTS == 2
MAX_MESSAGE_CHARS == 5000
CHUNK_THRESHOLD == 100
MAX_CHUNK_SIZE == 150
MESSAGE_OVERHEAD == 4
FallbackLen == 78
DefaultReplyLen == 25
SuggestionLen == 33
HowCanIHelpLen == 19
GreatChoiceLen == 30
NoOptionLen == 60
PlaceholderLen == 84
\* timedelta(minutes=10), in units of ten minutes
ACTIVE_WINDOW == 1

(* ---------------------------------------------------------------------- *)
(* Bounds of the model                                                    *)
(* ---------------------------------------------------------------------- *)
MaxTurns == 2
MaxRequests == 1
MaxWorkerRuns == 1
MaxClearings == 1
MaxTime == 1
MaxBig == 2
MaxN == 3
MaxR == 2
MaxTok == 3
MaxSents == 3
MaxUsers == 11
MaxChars == 8
MaxOffset == 1

\* two request-handling tasks may run at the same time
Slots == {1, 2}
\* length of a conversation that exists when the model starts
InitLen == RECENT_MESSAGES_COUNT

(* ---------------------------------------------------------------------- *)
(* Generic helpers                                                        *)
(* ---------------------------------------------------------------------- *)
Max(a, b) == IF a >= b THEN a ELSE b
Min(a, b) == IF a <= b THEN a ELSE b

\* s[-n:] of Python for n > 0 and Len(s) > n
LastN(s, n) == SubSeq(s, Len(s) - n + 1, Len(s))
\* s[-n:] of Python for 0 <= n < Len(s): s[-0:] is s[0:], the whole of s
TailSlice(s, n) == IF n = 0 THEN s ELSE LastN(s, n)
\* s[:-n] of Python for n > 0
AllButLastN(s, n) == SubSeq(s, 1, Len(s) - n)

SelectIds(s) == [i \in 1..Len(s) |-> s[i].id]

(* ---------------------------------------------------------------------- *)
(* Texts                                                                  *)
(* ---------------------------------------------------------------------- *)
Sent(n, w) == [len |-> n, ws |-> w]
Text(tag, ss) == [src |-> tag, sents |-> ss]
NoText == Text("none", <<>>)
Plain(tag, n) == Text(tag, IF n = 0 THEN <<>> ELSE <<Sent(n, 0)>>)

SentLen(s) == s.len
\* the length of a sequence of sentences
RECURSIVE SentsLen(_)
SentsLen(ss) == IF ss = <<>> THEN 0 ELSE SentLen(Head(ss)) + SentsLen(Tail(ss))
\* len(text)
TextLen(t) == SentsLen(t.sents)
\* len(text.strip()): the whitespace that ends the last sentence is trimmed
StrippedLen(t) ==
    IF t.sents = <<>> THEN 0 ELSE TextLen(t) - t.sents[Len(t.sents)].ws
\* bool(text): a non-empty string
Truthy(t) == TextLen(t) > 0

\* the texts of the model
SmallUserText == Plain("user", 7)
BigUserText == Plain("user", MAX_MESSAGE_CHARS)
EmptyUserText == Plain("user", 0)
OldBotText == Plain("old", 35)
FallbackText == Plain("fallback", FallbackLen)
DefaultReplyText == Plain("default", DefaultReplyLen)
SuggestionText == Plain("suggestion", SuggestionLen)
HowCanIHelpText == Plain("howcanihelp", HowCanIHelpLen)
GreatChoiceText == Plain("greatchoice", GreatChoiceLen)
NoOptionText == Plain("nooption", NoOptionLen)
AcceptUserText == Plain("accept_user", 24)
RecTitleText == Plain("rec_title", 12)
RecPairText == Plain("rec_title_content", 62)
AckText == Plain("ack", 21)
\* replies of the generator: nothing, one short sentence, one long sentence
\* without punctuation, three sentences that make two chunks
EmptyText(tag) == Text(tag, <<>>)
ShortText(tag) == Text(tag, <<Sent(40, 0)>>)
OneLongText(tag) == Text(tag, <<Sent(120, 0)>>)
LongText(tag) == Text(tag, <<Sent(60, 1), Sent(60, 1), Sent(60, 0)>>)

(* ---------------------------------------------------------------------- *)
(* Token estimator (context_manager.py, workers.py)                       *)
(* ---------------------------------------------------------------------- *)
\* max(len(text) // 3.5, 1), 0 for the empty text
count_tokens(t) ==
    IF TextLen(t) = 0 THEN 0 ELSE Max((2 * TextLen(t)) \div 7, 1)

\* max(int(len(text) / 3.5), 1), 0 for the empty text
count_tokens_simple(t) ==
    IF TextLen(t) = 0 THEN 0 ELSE Max((2 * TextLen(t)) \div 7, 1)

MsgTokens(m) == count_tokens(m.text) + MESSAGE_OVERHEAD
RECURSIVE count_messages_tokens(_)
count_messages_tokens(ms) ==
    IF ms = <<>> THEN 0
    ELSE MsgTokens(Head(ms)) + count_messages_tokens(Tail(ms))

MsgTokensSimple(m) == count_tokens_simple(m.text) + MESSAGE_OVERHEAD
RECURSIVE count_messages_tokens_simple(_)
count_messages_tokens_simple(ms) ==
    IF ms = <<>> THEN 0
    ELSE MsgTokensSimple(Head(ms)) + count_messages_tokens_simple(Tail(ms))

\* variant of should_summarize: the threshold itself triggers
should_summarize_at(history_tokens, summary_tokens, new_message_tokens, threshold) ==
    history_tokens + summary_tokens + new_message_tokens >= threshold

should_summarize(history_tokens, summary_tokens, new_message_tokens, threshold) ==
    history_tokens + summary_tokens + new_message_tokens > threshold

(* ---------------------------------------------------------------------- *)
(* Summaries                                                              *)
(* ---------------------------------------------------------------------- *)
\* memory_summary: NULL, or the text a summarization run produced.  run is
\* the run that produced it, n the number of messages it was given, prev
\* whether the previous summary went into it (the placeholder of a failed
\* call is made of len(messages) alone).
NoSummary ==
    [isNull |-> TRUE, text |-> NoText, run |-> 0, n |-> 0, prev |-> FALSE]
Summary(t, r, k, p) ==
    [isNull |-> FALSE, text |-> t, run |-> r, n |-> k, prev |-> p]
\* bool(memory_summary)
SummaryTruthy(s) == ~s.isNull /\ Truthy(s.text)
SummaryTextOf(s) == IF s.isNull THEN NoText ELSE s.text

\* what the summarizer call can return: a summary (which may be the empty
\* string once stripped) or a failure
SummarizerOutcomes == {"ok", "empty", "fail"}

\* generate_summary / generate_summary_sync once the call has returned
\* variant of generate_summary: the placeholder does not count the
\* messages it was given
generate_summary_uncounted(older, existing, run, outcome) ==
    CASE outcome = "ok" ->
            Summary(Plain("summary", 70), run, Len(older), TRUE)
      [] outcome = "empty" ->
            Summary(Plain("summary", 0), run, Len(older), TRUE)
      [] OTHER ->
            Summary(Plain("placeholder", PlaceholderLen), run, 0, FALSE)

generate_summary(older, existing, run, outcome) ==
    CASE outcome = "ok" ->
            Summary(Plain("summary", 70), run, Len(older), TRUE)
      [] outcome = "empty" ->
            Summary(Plain("summary", 0), run, Len(older), TRUE)
      [] OTHER ->
            Summary(Plain("placeholder", PlaceholderLen), run, Len(older), FALSE)

(* ---------------------------------------------------------------------- *)
(* Context filter (context_manager.py)                                    *)
(* ---------------------------------------------------------------------- *)
Role(m) == IF m.sender = "bot" THEN "assistant" ELSE m.sender
MsgEntry(m) == [role |-> Role(m), mid |-> m.id, text |-> m.text]
SummaryEntry(s) == [role |-> "system", mid |-> 0, text |-> s.text]

filter_messages_for_llm(all_messages, memory_summary, recent_count) ==
    LET head == IF SummaryTruthy(memory_summary)
                THEN <<SummaryEntry(memory_summary)>> ELSE <<>>
        recent == IF Len(all_messages) > recent_count
                  THEN TailSlice(all_messages, recent_count)
                  ELSE all_messages
    IN  head \o [i \in 1..Len(recent) |-> MsgEntry(recent[i])]

(* ---------------------------------------------------------------------- *)
(* Personalization (chat.py 87-164, websocket.py 90-167)                  *)
(* ---------------------------------------------------------------------- *)
\* the hour of a time; a time counts periods of ten minutes
HourOf(t) == (t \div 6) % 24

\* the buckets of get_time_of_day() and of should_send_context_info()
TimeOfDay(hour) ==
    IF 5 <= hour /\ hour < 12 THEN "morning"
    ELSE IF 12 <= hour /\ hour < 16 THEN "afternoon"
    ELSE IF 16 <= hour /\ hour < 22 THEN "evening"
    ELSE "night"

\* hour is datetime.now().hour, the hour of the local clock of the
\* server; msg.timestamp.hour is the hour of the stored timestamp
should_send_context_info(conversation_history, hour) ==
    LET current_time == TimeOfDay(hour)
        users == SelectSeq(conversation_history,
                           LAMBDA msg : msg.sender = "user")
        bots == SelectSeq(conversation_history,
                          LAMBDA msg : msg.sender = "bot")
        user_message_count == Len(users)
    IN  IF Len(conversation_history) < 2
        THEN [send_time |-> TRUE, send_name |-> TRUE,
              time_of_day |-> current_time]
        ELSE [send_time |->
                  IF bots = <<>> THEN TRUE
                  ELSE TimeOfDay(HourOf(bots[Len(bots)].ts)) # current_time,
              send_name |-> user_message_count % 10 = 1,
              time_of_day |-> current_time]

(* ---------------------------------------------------------------------- *)
(* Response chunker (chat.py, websocket.py), on sentences                 *)
(* ---------------------------------------------------------------------- *)
\* variant of StripSents: the mark that ends the last sentence goes with
\* the whitespace
StripSentsAndMark(ss) ==
    IF ss = <<>> THEN <<>>
    ELSE [i \in 1..Len(ss) |->
            IF i = Len(ss)
            THEN Sent(Max(ss[i].len - ss[i].ws - 1, 0), 0)
            ELSE ss[i]]

\* chunk.strip(): the whitespace that ends the last sentence goes
StripSents(ss) ==
    IF ss = <<>> THEN <<>>
    ELSE [i \in 1..Len(ss) |->
            IF i = Len(ss) THEN Sent(ss[i].len - ss[i].ws, 0) ELSE ss[i]]

\* variant of Overflows: only the chunk built so far is measured
OverflowsAlone(current, full_sentence, max_chunk_size) ==
    /\ current # <<>> /\ SentsLen(current) > 0
    /\ SentsLen(current) > max_chunk_size

\* current_chunk and len(current_chunk) + len(full_sentence) >
\* max_chunk_size
Overflows(current, full_sentence, max_chunk_size) ==
    /\ current # <<>> /\ SentsLen(current) > 0
    /\ SentsLen(current) + full_sentence.len > max_chunk_size

\* the loop over the sentences: current is current_chunk, chunks the list
RECURSIVE ChunkLoop(_, _, _, _)
ChunkLoop(rest, current, chunks, max_chunk_size) ==
    IF rest = <<>>
    THEN IF SentsLen(StripSents(current)) > 0
         THEN Append(chunks, StripSents(current))
         ELSE chunks
    ELSE IF Overflows(current, Head(rest), max_chunk_size)
         THEN ChunkLoop(Tail(rest), <<Head(rest)>>,
                        Append(chunks, StripSents(current)), max_chunk_size)
         ELSE ChunkLoop(Tail(rest), Append(current, Head(rest)),
                        chunks, max_chunk_size)

\* variant of split_into_chunks: the list of chunks is returned as it is
split_into_chunks_as_is(text, max_chunk_size) ==
    LET chunks == ChunkLoop(text.sents, <<>>, <<>>, max_chunk_size)
    IN  [i \in 1..Len(chunks) |-> Text(text.src, chunks[i])]

split_into_chunks(text, max_chunk_size) ==
    LET chunks == ChunkLoop(text.sents, <<>>, <<>>, max_chunk_size)
    IN  IF chunks # <<>>
        THEN [i \in 1..Len(chunks) |-> Text(text.src, chunks[i])]
        ELSE <<text>>

(* ---------------------------------------------------------------------- *)
(* Validation of a send turn                                              *)
(* ---------------------------------------------------------------------- *)
\* an inbound text: its length and its length once stripped
InText(r, k) == [raw |-> r, stripped |-> k]
Blank(x) == x.stripped = 0

\* the files of a request, given by name and without data: n of them, of
\* which names have a name that is not blank (file_names)
Files(n, k) == [n |-> n, names |-> k]
NoFiles == Files(0, 0)
\* has_files of handle_send_message
has_files(files) == files.names > 0

\* chat(): empty, then too long (on the text as sent), then the files
ValidateHttp(x, files) ==
    IF Blank(x) THEN "EmptyMessage"
    ELSE IF x.raw > MAX_MESSAGE_CHARS THEN "MessageTooLong"
    ELSE IF files.n > MAX_ATTACHMENTS THEN "TooManyAttachments"
    ELSE "ok"

\* variant of ValidateWs: a text of MAX_MESSAGE_CHARS characters is too
\* long
ValidateWsStrict(x, files) ==
    IF files.n > MAX_ATTACHMENTS THEN "TooManyAttachments"
    ELSE IF Blank(x) /\ ~has_files(files) THEN "EmptyMessage"
    ELSE IF x.stripped >= MAX_MESSAGE_CHARS THEN "MessageTooLong"
    ELSE "ok"

\* handle_send_message(): the files, then empty unless files came with
\* it, then too long (on the stripped text)
ValidateWs(x, files) ==
    IF files.n > MAX_ATTACHMENTS THEN "TooManyAttachments"
    ELSE IF Blank(x) /\ ~has_files(files) THEN "EmptyMessage"
    ELSE IF x.stripped > MAX_MESSAGE_CHARS THEN "MessageTooLong"
    ELSE "ok"

Validate(tr, x, files) ==
    IF tr = "http" THEN ValidateHttp(x, files) ELSE ValidateWs(x, files)

\* the text that is stored: as sent over HTTP, stripped over WebSocket
StoredUserText(tr, x) ==
    IF tr = "http" THEN Plain("user", x.raw) ELSE Plain("user", x.stripped)

(* ---------------------------------------------------------------------- *)
(* Rows and events                                                        *)
(* ---------------------------------------------------------------------- *)
\* a Message row; grp = 0, idx = -1, total = 0 stand for NULL
Msg(i, c, who, t, at, g, k, n) ==
    [id |-> i, conv |-> c, sender |-> who, text |-> t, ts |-> at,
     grp |-> g, idx |-> k, total |-> n]
PlainMsg(i, c, who, t, at) == Msg(i, c, who, t, at, 0, -1, 0)

\* a Conversation row; last_summary_at = -1 stands for NULL
NewConversation ==
    [memory_summary |-> NoSummary, pruned_count |-> 0, last_summary_at |-> -1]

\* an event handed to the client; mid = 0 stands for no message id
\* variant of Ev: every chunk event is marked as the final one
EvAllFinal(ty, t, k, n, m, g) ==
    [type |-> ty, text |-> t, idx |-> k, total |-> n, mid |-> m, grp |-> g,
     final |-> (ty = "chunk")]

Ev(ty, t, k, n, m, g) ==
    [type |-> ty, text |-> t, idx |-> k, total |-> n, mid |-> m, grp |-> g,
     final |-> (ty = "chunk" /\ k = n - 1)]
ErrorEv(tag) == Ev("error", Plain(tag, 1), -1, 0, 0, 0)
ChatEv(t, m) == Ev("chat", t, -1, 0, m, 0)
RecommendationEv(t) == Ev("recommendation", t, -1, 0, 0, 0)

\* the events that deliver the reply of a turn
DeliveryTypes == {"chat", "chunk", "recommendation", "chat_and_recommendation"}
Delivered(out) == SelectSeq(out, LAMBDA e : e.type \in DeliveryTypes)

(* ---------------------------------------------------------------------- *)
(* Results of the response generator                                      *)
(* ---------------------------------------------------------------------- *)
\* type "raise": handle_user_input raised; "invalid": it returned no dict.
\* content is the value under "content"; hasTitle and hasContent say
\* whether a recommendation carries its title and content (for a
\* chat_and_recommendation result: whether the nested recommendation
\* has them); chat is the "chat" part of a chat_and_recommendation.
Result(ty, c, ht, hc, ch) ==
    [type |-> ty, content |-> c, hasTitle |-> ht, hasContent |-> hc,
     chat |-> ch]
ChatResult(c) == Result("chat", c, FALSE, TRUE, NoText)
NoResult == Result("none", NoText, FALSE, FALSE, NoText)

GenResults ==
    { Result("raise", NoText, FALSE, FALSE, NoText),
      Result("invalid", NoText, FALSE, FALSE, NoText),
      ChatResult(EmptyText("gen")),
      ChatResult(ShortText("gen")),
      ChatResult(OneLongText("gen")),
      ChatResult(LongText("gen")),
      Result("recommendation", ShortText("rec"), TRUE, TRUE, NoText),
      Result("recommendation", LongText("rec"), TRUE, TRUE, NoText),
      Result("recommendation", LongText("rec"), FALSE, TRUE, NoText),
      Result("recommendation", NoText, TRUE, FALSE, NoText),
      Result("chat_and_recommendation", ShortText("rec"), TRUE, TRUE,
             ShortText("gen")),
      Result("chat_and_recommendation", ShortText("rec"), TRUE, TRUE,
             LongText("gen")),
      Result("chat_and_recommendation", ShortText("rec"), TRUE, TRUE,
             EmptyText("gen")),
      Result("chat_and_recommendation", NoText, TRUE, FALSE,
             ShortText("gen")),
      Result("chat_and_recommendation", NoText, FALSE, FALSE,
             EmptyText("gen")) }

\* call_llm(): the wrapper around handle_user_input
call_llm(g) ==
    CASE g.type = "raise" -> ChatResult(FallbackText)
      [] g.type = "invalid" -> ChatResult(DefaultReplyText)
      [] OTHER -> g

(* ---------------------------------------------------------------------- *)
(* Interpreting the result: what is stored and what is delivered          *)
(* ---------------------------------------------------------------------- *)
\* the rows appended, the events delivered, whether the write raised
Outcome(rows, evs) == [new |-> rows, out |-> evs, failed |-> FALSE]
Failure(evs) == [new |-> <<>>, out |-> evs, failed |-> TRUE]

\* bot_reply has a "content" key
HasContentKey(b) ==
    b.type = "chat" \/ (b.type = "recommendation" /\ b.hasContent)
\* bot_reply.get("content", default)
ContentOr(b, default) == IF HasContentKey(b) THEN b.content ELSE default

\* variant of ChunkedReply: the commit stores the first chunk only
ChunkedReplyFirst(text, c, id0, at, withIds) ==
    LET chunks == split_into_chunks(text, MAX_CHUNK_SIZE)
        n == Len(chunks)
    IN  Outcome(<<Msg(id0, c, "bot", chunks[1], at, id0, 0, n)>>,
                [i \in 1..n |->
                    Ev("chunk", chunks[i], i - 1, n,
                       IF withIds THEN id0 + i - 1 ELSE 0, id0)])

\* the chunks of a reply, stored in one commit under one group id, then
\* delivered in index order; withIds: the events carry the message ids
ChunkedReply(text, c, id0, at, withIds) ==
    LET chunks == split_into_chunks(text, MAX_CHUNK_SIZE)
        n == Len(chunks)
    IN  Outcome([i \in 1..n |->
                    Msg(id0 + i - 1, c, "bot", chunks[i], at, id0, i - 1, n)],
                [i \in 1..n |->
                    Ev("chunk", chunks[i], i - 1, n,
                       IF withIds THEN id0 + i - 1 ELSE 0, id0)])

\* variant of SingleReply: the reply is delivered with the id it would
\* get and the Message is not written
SingleReplyUnsaved(text, c, id0, at) ==
    Outcome(<<>>, <<ChatEv(text, id0)>>)

\* a reply stored as one Message and delivered as one chat event
SingleReply(text, c, id0, at) ==
    Outcome(<<PlainMsg(id0, c, "bot", text, at)>>, <<ChatEv(text, id0)>>)

\* variant of SaveFailed: the write is rolled back and nothing is
\* delivered
SaveFailedSilent(b) == Failure(<<>>)

\* the except branch around "save and send": the write is rolled back and
\* bot_reply.get("content", "Yeah, how can I help you?") is delivered
SaveFailed(b) == Failure(<<ChatEv(ContentOr(b, DefaultReplyText), 0)>>)

\* the normal chat flow of handle_send_message (websocket.py 853-935)
WsChat(b, c, id0, at, dbFail) ==
    LET reply_text == IF Truthy(b.content) THEN b.content ELSE DefaultReplyText
    IN  IF dbFail THEN SaveFailed(b)
        ELSE IF TextLen(reply_text) > CHUNK_THRESHOLD
             THEN ChunkedReply(reply_text, c, id0, at, TRUE)
             ELSE SingleReply(reply_text, c, id0, at)

\* a chat_and_recommendation result is complete
HybridComplete(b) == Truthy(b.chat) /\ b.hasTitle /\ b.hasContent

\* websocket.py 729-825: the chat part is stored and delivered, then the
\* recommendation is delivered and not stored
WsHybrid(b, c, id0, at, dbFail) ==
    LET chat == IF TextLen(b.chat) > CHUNK_THRESHOLD
                THEN ChunkedReply(b.chat, c, id0, at, TRUE)
                ELSE SingleReply(b.chat, c, id0, at)
    IN  IF dbFail THEN SaveFailed(b)
        ELSE Outcome(chat.new, chat.out \o <<RecommendationEv(b.content)>>)

\* websocket.py 817-825: an incomplete chat_and_recommendation result
WsHybridFallback(b) ==
    IF b.hasTitle /\ b.hasContent
    THEN Result("recommendation", b.content, TRUE, TRUE, NoText)
    ELSE IF Truthy(b.chat) THEN ChatResult(b.chat)
    ELSE ChatResult(HowCanIHelpText)

\* variant of WsRecommendation: the recommendation is stored when it is
\* delivered
WsRecommendationStored(b, c, id0, at, dbFail) ==
    IF b.hasTitle /\ b.hasContent
    THEN Outcome(<<PlainMsg(id0, c, "bot", b.content, at)>>,
                 <<RecommendationEv(b.content)>>)
    ELSE WsChat(ChatResult(ContentOr(b, SuggestionText)), c, id0, at, dbFail)

\* variant of WsRecommendation: a long recommendation is delivered in
\* chunks
WsRecommendationChunked(b, c, id0, at, dbFail) ==
    IF b.hasTitle /\ b.hasContent
    THEN IF TextLen(b.content) > CHUNK_THRESHOLD
         THEN Outcome(<<>>, ChunkedReply(b.content, c, id0, at, FALSE).out)
         ELSE Outcome(<<>>, <<RecommendationEv(b.content)>>)
    ELSE WsChat(ChatResult(ContentOr(b, SuggestionText)), c, id0, at, dbFail)

\* websocket.py 827-843: a recommendation is delivered whole and not
\* stored; one without title or content becomes a chat reply
WsRecommendation(b, c, id0, at, dbFail) ==
    IF b.hasTitle /\ b.hasContent
    THEN Outcome(<<>>, <<RecommendationEv(b.content)>>)
    ELSE WsChat(ChatResult(ContentOr(b, SuggestionText)), c, id0, at, dbFail)

\* step 7 of handle_send_message
HandleWs(b, c, id0, at, dbFail) ==
    IF b.type = "chat_and_recommendation" /\ HybridComplete(b)
    THEN WsHybrid(b, c, id0, at, dbFail)
    ELSE LET b1 == IF b.type = "chat_and_recommendation"
                   THEN WsHybridFallback(b) ELSE b
         IN  IF b1.type = "recommendation"
             THEN WsRecommendation(b1, c, id0, at, dbFail)
             ELSE WsChat(b1, c, id0, at, dbFail)

\* step 7 of chat(): a recommendation is returned whole; one without
\* title or content is returned as chat and not stored; anything else is
\* a chat reply read from "content"
HandleHttp(b, c, id0, at, stream, dbFail) ==
    IF b.type = "recommendation"
    THEN IF b.hasTitle /\ b.hasContent
         THEN Outcome(<<>>, <<RecommendationEv(b.content)>>)
         ELSE Outcome(<<>>, <<ChatEv(ContentOr(b, SuggestionText), 0)>>)
    ELSE LET got == ContentOr(b, NoText)
             reply_text == IF Truthy(got) THEN got ELSE DefaultReplyText
         IN  IF dbFail THEN SaveFailed(b)
             ELSE IF stream /\ TextLen(reply_text) > CHUNK_THRESHOLD
                  THEN ChunkedReply(reply_text, c, id0, at, FALSE)
                  ELSE Outcome(<<PlainMsg(id0, c, "bot", reply_text, at)>>,
                               <<ChatEv(reply_text, 0)>>)

\* the confirmation of handle_accept_recommendation (websocket.py
\* 1057-1085): the content is stored and delivered unchunked; a failed
\* write is logged and nothing is delivered
HandleAccept(b, c, id0, at, dbFail) ==
    LET got == ContentOr(b, NoText)
        reply_text == IF Truthy(got) THEN got ELSE GreatChoiceText
    IN  IF dbFail THEN Failure(<<>>)
        ELSE SingleReply(reply_text, c, id0, at)

\* reject_recommendation (chat.py 620-644): the new recommendation is
\* returned as it came and nothing is stored
HandleReject(g) ==
    IF g.type \in {"raise", "invalid"}
    THEN Outcome(<<>>, <<ChatEv(NoOptionText, 0)>>)
    ELSE Outcome(<<>>, <<Ev(g.type, IF g.type = "chat_and_recommendation"
                                      THEN g.chat ELSE g.content,
                             -1, 0, 0, 0)>>)

(* ---------------------------------------------------------------------- *)
(* State                                                                  *)
(* ---------------------------------------------------------------------- *)
VARIABLES
    IS_PRODUCTION, \* FLASK_ENV = production
    convs,         \* the Conversation rows of the user, by id
    msgs,          \* the Message rows, in the order they were appended
    nextId,        \* the id the next Message row gets
    nextRun,       \* the number the next summarization gets
    now,           \* the clock
    turn,          \* the request-handling tasks
    worker,        \* the summary worker
    sumCalls,      \* the calls made to the summarizer so far
    left,          \* requests still to come
    workerRuns,    \* runs of the summary worker so far
    clearings,     \* runs of the nightly clearing so far
    args,          \* the arguments of a call of a function on its own
    ret,           \* what that call returned
    TZ_OFFSET      \* hours the local clock of the server is ahead of UTC

vars == <<IS_PRODUCTION, convs, msgs, nextId, nextRun, now, turn, worker,
          sumCalls, left, workerRuns, clearings, args, ret, TZ_OFFSET>>

\* no function is called on its own
NoArgs ==
    [fn |-> "none", all_messages |-> <<>>, memory_summary |-> NoSummary,
     recent_count |-> 0, history_tokens |-> 0, summary_tokens |-> 0,
     new_message_tokens |-> 0, threshold |-> 0, text |-> NoText,
     max_chunk_size |-> 0, conversation_history |-> <<>>, now |-> 0]
NoRet ==
    [done |-> FALSE, context |-> <<>>, should |-> FALSE, chunks |-> <<>>,
     info |-> [send_time |-> FALSE, send_name |-> FALSE,
               time_of_day |-> "none"],
     tokens |-> 0]

\* a task: where it is (pc), the request it handles (op, tr, stream, x,
\* files), the conversation and the user Message of the request, the
\* messages and the summary it read (snap, read), the Conversation row
\* as its session loaded it (row), the context it built
\* (ctx), whether it hands the generator the name of the user and which
\* time of day (name, tod), the result it got from the generator (res),
\* whether the write of the reply raised (failed), what it delivered (out)
\* and the messages a history request returned (hist)
IdleTurn ==
    [pc |-> "idle", op |-> "none", tr |-> "none", stream |-> FALSE,
     x |-> InText(0, 0), files |-> NoFiles,
     conv |-> 0, umsg |-> 0, snap |-> <<>>, read |-> NoSummary, run |-> 0,
     row |-> NewConversation, ctx |-> <<>>, name |-> FALSE, tod |-> "none",
     res |-> NoResult, failed |-> FALSE, out |-> <<>>, hist |-> <<>>]

IdleWorker ==
    [pc |-> "idle", conv |-> 0, upto |-> 0, snap |-> <<>>,
     read |-> NoSummary, run |-> 0, row |-> NewConversation]

\* Message.query.filter_by(conversation_id=c).order_by(timestamp.asc())
ConvMsgs(store, c) == SelectSeq(store, LAMBDA m : m.conv = c)

\* datetime.now(): the clock of the server, local; utc_now() is now
LocalNow == now + 6 * TZ_OFFSET

\* step 5 of a send turn: whether the name of the user and which time of
\* day go to the generator; handle_accept_recommendation passes the
\* name, reject_recommendation passes neither
GeneratorArgs(r, store) ==
    IF r.pc # "generating" THEN r
    ELSE IF r.op = "send"
    THEN LET info == should_send_context_info(ConvMsgs(store, r.conv),
                                              HourOf(LocalNow))
         IN  [r EXCEPT !.name = info.send_name,
                       !.tod = IF info.send_time THEN info.time_of_day
                               ELSE "none"]
    ELSE [r EXCEPT !.name = (r.op = "accept"), !.tod = "none"]

\* a conversation of InitLen messages, user and bot in turn, of which the
\* first k user messages are of the largest size a turn accepts
InitHistory(k) ==
    [i \in 1..InitLen |->
        IF i % 2 = 1
        THEN PlainMsg(i, 1, "user",
                      IF (i + 1) \div 2 <= k THEN BigUserText
                      ELSE SmallUserText, 0)
        ELSE PlainMsg(i, 1, "bot", OldBotText, 0)]

\* the state at the start, given the deployment, the conversations and
\* messages that exist and the number of requests to come
AtRest(production, cs, ms, requests) ==
    /\ IS_PRODUCTION = production
    /\ convs = cs
    /\ msgs = ms
    /\ nextId = Len(ms) + 1
    /\ nextRun = 1
    /\ now = 0
    /\ turn = [t \in Slots |-> IdleTurn]
    /\ worker = IdleWorker
    /\ sumCalls = <<>>
    /\ left = requests
    /\ workerRuns = 0
    /\ clearings = 0

\* a server whose local clock is UTC, and no function called on its own
Start(production, cs, ms, requests) ==
    /\ AtRest(production, cs, ms, requests)
    /\ args = NoArgs
    /\ ret = NoRet
    /\ TZ_OFFSET = 0

\* a production deployment and a conversation of InitLen messages
Init ==
    \E k \in 0..MaxBig :
        Start(TRUE, <<NewConversation>>, InitHistory(k), MaxTurns)

\* a production deployment; a new user or a conversation of InitLen
\* messages
InitTurn ==
    \/ Start(TRUE, <<>>, <<>>, MaxRequests)
    \/ \E k \in 0..MaxBig :
          Start(TRUE, <<NewConversation>>, InitHistory(k), MaxRequests)

\* either deployment; a new user or a conversation of InitLen messages
InitValid ==
    \E production \in BOOLEAN :
        \/ Start(production, <<>>, <<>>, MaxRequests)
        \/ Start(production, <<NewConversation>>, InitHistory(MaxBig),
                 MaxRequests)

(* ---------------------------------------------------------------------- *)
(* process_conversation_context (context_manager.py 231-313)              *)
(* ---------------------------------------------------------------------- *)
\* variant of InlineDue: the number of messages is not looked at
InlineDueAnyLength(all_messages, row, new_user_message) ==
    should_summarize(count_messages_tokens(all_messages),
                     count_tokens(SummaryTextOf(row.memory_summary)),
                     count_tokens(new_user_message), TOKEN_THRESHOLD)

\* the trigger check and the selection: the summarizer is to be called
InlineDue(all_messages, row, new_user_message) ==
    /\ should_summarize(count_messages_tokens(all_messages),
                        count_tokens(SummaryTextOf(row.memory_summary)),
                        count_tokens(new_user_message), TOKEN_THRESHOLD)
    /\ Len(all_messages) > RECENT_MESSAGES_COUNT

\* variant of Older: the message of the turn is not counted
OlderOfPrior(all_messages, keep) == AllButLastN(all_messages, keep + 1)

\* the messages handed to the summarizer
Older(all_messages, keep) == AllButLastN(all_messages, keep)

\* the new_user_message turn r hands to process_conversation_context
NewMessageOf(r) ==
    CASE r.op = "send" -> StoredUserText(r.tr, r.x)
      [] r.op = "accept" -> AcceptUserText
      [] OTHER -> Plain("rejected", 25)

\* up to the call of the summarizer, or to the filtered context when the
\* summarizer is not called
EnterContext(r, store, row, new_user_message) ==
    LET all_messages == ConvMsgs(store, r.conv)
    IN  IF InlineDue(all_messages, row, new_user_message)
        THEN [r EXCEPT !.pc = "summarizing", !.snap = all_messages,
                       !.read = row.memory_summary, !.run = nextRun,
                       !.row = row]
        ELSE [r EXCEPT !.pc = "generating",
                       !.ctx = filter_messages_for_llm(all_messages,
                                   row.memory_summary, RECENT_MESSAGES_COUNT)]

SumCall(run, by, c, older) ==
    [run |-> run, by |-> by, conv |-> c, older |-> SelectIds(older)]

\* the bookkeeping of a call to the summarizer made by a turn
NoteInlineCall(r) ==
    IF r.pc = "summarizing"
    THEN /\ sumCalls' = Append(sumCalls,
                SumCall(r.run, "turn", r.conv,
                        Older(r.snap, RECENT_MESSAGES_COUNT)))
         /\ nextRun' = nextRun + 1
    ELSE UNCHANGED <<sumCalls, nextRun>>

\* the attributes a summarization sets on the row its session loaded
Summarized(row, new_summary, older, at) ==
    [row EXCEPT !.memory_summary = new_summary,
                !.pruned_count = Len(older),
                !.last_summary_at = at]

\* variant of Flushed: the UPDATE writes every column
FlushedWhole(row, loaded, set) == set

\* db.session.commit() of a session that loaded the row as loaded and set
\* its attributes to set: the UPDATE names the columns whose value is not
\* the loaded one, the other columns of the stored row stay as they are.
\* last_summary_at is datetime.now(), which is no time stored before
Flushed(row, loaded, set) ==
    [row EXCEPT !.memory_summary =
                    IF set.memory_summary = loaded.memory_summary
                    THEN @ ELSE set.memory_summary,
                !.pruned_count =
                    IF set.pruned_count = loaded.pruned_count
                    THEN @ ELSE set.pruned_count,
                !.last_summary_at = set.last_summary_at]

(* ---------------------------------------------------------------------- *)
(* Requests                                                               *)
(* ---------------------------------------------------------------------- *)
Free(t) == turn[t].pc \in {"idle", "done"}
\* a request is handled by the first task that is free
CanStart(t) ==
    /\ left > 0
    /\ Free(t)
    /\ \A u \in Slots : u < t => ~Free(u)

Finished(r, evs) ==
    [r EXCEPT !.pc = "done", !.snap = <<>>, !.read = NoSummary, !.run = 0,
              !.row = NewConversation, !.ctx = <<>>, !.name = FALSE, !.tod = "none", !.out = evs]

\* up to one file more than allowed, all of them named or none
InFiles ==
    { Files(n, 0) : n \in 0..(MAX_ATTACHMENTS + 1) }
        \cup { Files(n, n) : n \in 0..(MAX_ATTACHMENTS + 1) }

InTexts ==
    { InText(0, 0), InText(3, 0), InText(7, 7),
      InText(MAX_MESSAGE_CHARS, MAX_MESSAGE_CHARS),
      InText(MAX_MESSAGE_CHARS + 1, MAX_MESSAGE_CHARS + 1),
      InText(MAX_MESSAGE_CHARS + 2, MAX_MESSAGE_CHARS) }

\* variant of LatestOf: the conversation with the lowest id
EarliestOf(cs) == IF cs = <<>> THEN 0 ELSE 1

\* Conversation.query.filter_by(user_id=...).order_by(
\* Conversation.id.desc()).first(): the id of the conversation with the
\* highest id, 0 when there is none
LatestOf(cs) == Len(cs)

\* the latest conversation of the user, created when there is none
Resolved(cs) == IF cs = <<>> THEN <<NewConversation>> ELSE cs

\* variant of ConvsAfterValidation: the conversation is resolved first
ConvsBeforeValidation(verdict, cs) == Resolved(cs)

\* the conversation is resolved once the request has passed validation
ConvsAfterValidation(verdict, cs) ==
    IF verdict # "ok" THEN cs ELSE Resolved(cs)

\* variant of SendRows: the user Message is not among the rows stored
\* before the context is built
SendRowsLate(user_msg, ack_msg, acked) ==
    IF acked THEN <<ack_msg>> ELSE <<>>

\* the rows stored before the context is built: the user Message and,
\* outside production, the acknowledgement of the files
SendRows(user_msg, ack_msg, acked) ==
    IF acked THEN <<user_msg, ack_msg>> ELSE <<user_msg>>

\* variant of UserSaveFailed: the failure is logged and the turn goes on
\* to the generator
UserSaveIgnored(base, c) ==
    [base EXCEPT !.conv = c, !.failed = TRUE, !.pc = "generating"]

\* the commit of the user Message raised: the write is rolled back, an
\* error is delivered and the handler returns
UserSaveFailed(base, c) ==
    Finished([base EXCEPT !.conv = c, !.failed = TRUE],
             <<ErrorEv("save_failed")>>)

\* the task of a send request as it arrives
SendTurn(tr, x, files, stream) ==
    [IdleTurn EXCEPT !.op = "send", !.tr = tr,
                     !.stream = (tr = "http" /\ stream),
                     !.x = x, !.files = files]

\* a send request that passed the validation, from the storing of the
\* user Message on; cs are the conversations once the request has
\* resolved its own, the latest of them
SendOn(t, base, cs, saveFails) ==
    LET tr == base.tr
        x == base.x
        files == base.files
        c == LatestOf(cs)
        text == StoredUserText(tr, x)
        user_msg == PlainMsg(nextId, c, "user", text, now)
        acked == tr = "ws" /\ files.names > 0 /\ ~IS_PRODUCTION
        ack_msg == PlainMsg(nextId + 1, c, "bot", AckText, now)
        rows == SendRows(user_msg, ack_msg, acked)
        saved == IF tr = "ws"
                 THEN <<Ev("message_saved", NoText, -1, 0, nextId, 0)>>
                      \o (IF acked
                          THEN <<Ev("ack", AckText, -1, 0, nextId + 1, 0)>>
                          ELSE <<>>)
                 ELSE <<>>
        r == GeneratorArgs(
                 EnterContext([base EXCEPT !.conv = c, !.umsg = nextId,
                                           !.out = saved],
                              msgs \o rows, cs[c], text),
                 msgs \o rows)
    IN  IF saveFails
        THEN /\ convs' = cs
             /\ turn' = [turn EXCEPT ![t] = UserSaveFailed(base, c)]
             /\ UNCHANGED <<msgs, nextId, nextRun, sumCalls>>
        ELSE /\ convs' = cs
             /\ msgs' = msgs \o rows
             /\ nextId' = nextId + Len(rows)
             /\ turn' = [turn EXCEPT ![t] = r]
             /\ NoteInlineCall(r)

\* chat() of chat.py and handle_send_message() of websocket.py up to the
\* first call of a collaborator.  x is the text, files the
\* files (file names without data, so nothing is uploaded), saveFails
\* whether the commit of the user message raises.
StartSend(t, tr, x, files, stream, saveFails) ==
    /\ CanStart(t)
    /\ left' = left - 1
    /\ LET base == SendTurn(tr, x, files, stream)
           verdict == Validate(tr, x, files)
           cs == ConvsAfterValidation(verdict, convs)
       IN  IF verdict # "ok"
           THEN /\ convs' = cs
                /\ turn' = [turn EXCEPT ![t] =
                        Finished(base, <<ErrorEv(verdict)>>)]
                /\ UNCHANGED <<msgs, nextId, nextRun, sumCalls>>
           ELSE SendOn(t, base, cs, saveFails)
    /\ UNCHANGED <<args, ret, TZ_OFFSET>>
    /\ UNCHANGED <<IS_PRODUCTION, now, worker, workerRuns, clearings>>

\* the first query of a first send turn has found no conversation, and
\* the handler has not yet committed the one it creates (chat.py 321-323,
\* websocket.py 491-493)
ArriveSend(t, tr, x, files, stream) ==
    /\ CanStart(t)
    /\ left' = left - 1
    /\ Validate(tr, x, files) = "ok"
    /\ convs = <<>>
    /\ turn' = [turn EXCEPT ![t] =
            [SendTurn(tr, x, files, stream) EXCEPT !.pc = "resolving"]]
    /\ UNCHANGED <<args, ret, TZ_OFFSET>>
    /\ UNCHANGED <<IS_PRODUCTION, convs, msgs, nextId, nextRun, now, worker,
                   sumCalls, workerRuns, clearings>>

\* the handler that found no conversation creates one, whatever has been
\* created since, and goes on with it (chat.py 324-326, websocket.py
\* 494-496)
CreateAndSend(t, saveFails) ==
    /\ turn[t].pc = "resolving"
    /\ SendOn(t, [turn[t] EXCEPT !.pc = "idle"],
              Append(convs, NewConversation), saveFails)
    /\ UNCHANGED <<args, ret, TZ_OFFSET>>
    /\ UNCHANGED <<IS_PRODUCTION, now, worker, workerRuns, clearings, left>>

\* handle_accept_recommendation() of websocket.py up to the first call of
\* a collaborator: the title is stored as a bot Message and the user's
\* acceptance as a user Message, in one commit
StartAcceptWs(t, hasTitle, saveFails) ==
    /\ CanStart(t)
    /\ left' = left - 1
    /\ LET base == [IdleTurn EXCEPT !.op = "accept", !.tr = "ws"]
           c == LatestOf(convs)
           bot_msg == PlainMsg(nextId, c, "bot", RecTitleText, now)
           user_msg == PlainMsg(nextId + 1, c, "user", AcceptUserText, now)
           rows == <<bot_msg, user_msg>>
           r == GeneratorArgs(
                    EnterContext([base EXCEPT !.conv = c,
                                    !.umsg = nextId + 1,
                                    !.out = <<Ev("saved", NoText, -1, 0,
                                                 nextId, 0)>>],
                                 msgs \o rows, convs[c], AcceptUserText),
                    msgs \o rows)
       IN  IF ~hasTitle \/ convs = <<>> \/ saveFails
           THEN /\ turn' = [turn EXCEPT ![t] =
                        Finished(base, <<ErrorEv(
                            IF ~hasTitle THEN "missing_title"
                            ELSE IF convs = <<>> THEN "no_conversation"
                            ELSE "save_failed")>>)]
                /\ UNCHANGED <<msgs, nextId, nextRun, sumCalls>>
           ELSE /\ msgs' = msgs \o rows
                /\ nextId' = nextId + 2
                /\ turn' = [turn EXCEPT ![t] = r]
                /\ NoteInlineCall(r)
    /\ UNCHANGED <<args, ret, TZ_OFFSET>>
    /\ UNCHANGED <<IS_PRODUCTION, convs, now, worker, workerRuns, clearings>>

\* accept_recommendation() of chat.py: "title: content" is stored as a
\* bot Message; no collaborator is called
AcceptHttp(t, complete, saveFails) ==
    /\ CanStart(t)
    /\ left' = left - 1
    /\ LET base == [IdleTurn EXCEPT !.op = "accept", !.tr = "http"]
           c == LatestOf(convs)
       IN  IF ~complete \/ convs = <<>> \/ saveFails
           THEN /\ turn' = [turn EXCEPT ![t] =
                        Finished(base, <<ErrorEv(
                            IF ~complete THEN "missing_title_or_content"
                            ELSE IF convs = <<>> THEN "no_conversation"
                            ELSE "save_failed")>>)]
                /\ UNCHANGED <<msgs, nextId>>
           ELSE /\ msgs' = Append(msgs,
                        PlainMsg(nextId, c, "bot", RecPairText, now))
                /\ nextId' = nextId + 1
                /\ turn' = [turn EXCEPT ![t] =
                        Finished([base EXCEPT !.conv = c],
                                 <<Ev("saved", NoText, -1, 0, 0, 0)>>)]
    /\ UNCHANGED <<args, ret, TZ_OFFSET>>
    /\ UNCHANGED <<IS_PRODUCTION, convs, now, worker, workerRuns, clearings,
                   nextRun, sumCalls>>

\* reject_recommendation() of chat.py up to the first call of a
\* collaborator: nothing is stored, the context is built for
\* "User rejected: <title>"
StartRejectHttp(t, hasTitle) ==
    /\ CanStart(t)
    /\ left' = left - 1
    /\ LET base == [IdleTurn EXCEPT !.op = "reject", !.tr = "http"]
           c == LatestOf(convs)
           r == GeneratorArgs(
                    EnterContext([base EXCEPT !.conv = c], msgs, convs[c],
                                 Plain("rejected", 25)),
                    msgs)
       IN  IF ~hasTitle \/ convs = <<>>
           THEN /\ turn' = [turn EXCEPT ![t] =
                        Finished(base, <<ErrorEv(
                            IF ~hasTitle THEN "missing_title"
                            ELSE "no_conversation")>>)]
                /\ UNCHANGED <<nextRun, sumCalls>>
           ELSE /\ turn' = [turn EXCEPT ![t] = r]
                /\ NoteInlineCall(r)
    /\ UNCHANGED <<args, ret, TZ_OFFSET>>
    /\ UNCHANGED <<IS_PRODUCTION, convs, msgs, nextId, now, worker,
                   workerRuns, clearings>>

\* what a request delivers when process_conversation_context raises
ContextFailed(r) ==
    CASE r.op = "send" -> <<ChatEv(FallbackText, 0)>>
      [] r.op = "reject" -> <<ChatEv(NoOptionText, 0)>>
      [] OTHER -> <<>>

\* the summarizer call of a turn returns: the summary fields are
\* committed and the context is filtered (context_manager.py 287-313);
\* commitFails: the commit raises
SummaryReturn(t, outcome, commitFails) ==
    /\ turn[t].pc = "summarizing"
    /\ LET r == turn[t]
           older == Older(r.snap, RECENT_MESSAGES_COUNT)
           new_summary == generate_summary(older, r.read, r.run, outcome)
       IN  IF commitFails
           THEN /\ turn' = [turn EXCEPT ![t] =
                        Finished(r, r.out \o ContextFailed(r))]
                /\ UNCHANGED convs
           ELSE /\ convs' = [convs EXCEPT ![r.conv] =
                        Flushed(@, r.row,
                            Summarized(r.row, new_summary, older, now))]
                /\ turn' = [turn EXCEPT ![t] = GeneratorArgs(
                        [r EXCEPT !.pc = "generating", !.snap = <<>>,
                                  !.read = NoSummary,
                                  !.row = NewConversation,
                                  !.ctx = filter_messages_for_llm(r.snap,
                                      new_summary, RECENT_MESSAGES_COUNT)],
                        msgs)]
    /\ UNCHANGED <<args, ret, TZ_OFFSET>>
    /\ UNCHANGED <<IS_PRODUCTION, msgs, nextId, nextRun, now, worker,
                   sumCalls, left, workerRuns, clearings>>

\* the generator call of a turn returns with g: the result is
\* interpreted, stored and delivered; dbFail: the commit of the reply
\* raises
GenerateReturn(t, g, dbFail) ==
    /\ turn[t].pc = "generating"
    /\ LET r == turn[t]
           o == CASE r.op = "send" /\ r.tr = "ws" ->
                       HandleWs(call_llm(g), r.conv, nextId, now, dbFail)
                  [] r.op = "send" /\ r.tr = "http" ->
                       HandleHttp(call_llm(g), r.conv, nextId, now,
                                  r.stream, dbFail)
                  [] r.op = "accept" ->
                       HandleAccept(call_llm(g), r.conv, nextId, now, dbFail)
                  [] OTHER -> HandleReject(g)
       IN  /\ msgs' = msgs \o o.new
           /\ nextId' = nextId + Len(o.new)
           /\ turn' = [turn EXCEPT ![t] =
                   Finished([r EXCEPT !.res = g, !.failed = o.failed],
                            r.out \o o.out)]
    /\ UNCHANGED <<args, ret, TZ_OFFSET>>
    /\ UNCHANGED <<IS_PRODUCTION, convs, nextRun, now, worker, sumCalls,
                   left, workerRuns, clearings>>

\* variant of get_full_history_for_frontend: the messages the summary
\* covers are left out
get_history_after_summary(store, conversation_id) ==
    LET messages == ConvMsgs(store, conversation_id)
        kept == SubSeq(messages, convs[conversation_id].pruned_count + 1,
                       Len(messages))
    IN  [i \in 1..Len(kept) |->
            [sender |-> kept[i].sender, text |-> kept[i].text,
             timestamp |-> kept[i].ts]]

\* get_full_history_for_frontend (context_manager.py 316-341)
get_full_history_for_frontend(store, conversation_id) ==
    LET messages == ConvMsgs(store, conversation_id)
    IN  [i \in 1..Len(messages) |->
            [sender |-> messages[i].sender, text |-> messages[i].text,
             timestamp |-> messages[i].ts]]

\* history() of chat.py and handle_get_history() of websocket.py: the
\* messages of the latest conversation, has_summary and summarized_count
HistoryRequest(t) ==
    /\ CanStart(t)
    /\ left' = left - 1
    /\ LET base == [IdleTurn EXCEPT !.op = "history"]
           c == LatestOf(convs)
       IN  turn' = [turn EXCEPT ![t] =
               IF convs = <<>>
               THEN Finished(base, <<Ev("chat_history", NoText, -1, 0, 0, 0)>>)
               ELSE [Finished([base EXCEPT !.conv = c],
                              <<Ev("chat_history", NoText, -1,
                                   convs[c].pruned_count, 0, 0)>>)
                        EXCEPT !.hist = get_full_history_for_frontend(msgs, c)]]
    /\ UNCHANGED <<args, ret, TZ_OFFSET>>
    /\ UNCHANGED <<IS_PRODUCTION, convs, msgs, nextId, nextRun, now, worker,
                   sumCalls, workerRuns, clearings>>

\* the request is given up while a collaborator is being called (the
\* client is gone, the request timed out): nothing more is done
Abandon(t) ==
    /\ turn[t].pc \in {"summarizing", "generating"}
    /\ turn' = [turn EXCEPT ![t] = Finished(turn[t], turn[t].out)]
    /\ UNCHANGED <<args, ret, TZ_OFFSET>>
    /\ UNCHANGED <<IS_PRODUCTION, convs, msgs, nextId, nextRun, now, worker,
                   sumCalls, left, workerRuns, clearings>>

(* ---------------------------------------------------------------------- *)
(* Summary worker (workers.py 151-241)                                    *)
(* ---------------------------------------------------------------------- *)
WorkerDue(store, row, c) ==
    LET messages == ConvMsgs(store, c)
        total_tokens == count_messages_tokens_simple(messages)
                        + count_tokens_simple(SummaryTextOf(row.memory_summary))
    IN  /\ ~(Len(messages) <= RECENT_MESSAGES_TO_KEEP)
        /\ ~(total_tokens < TOKEN_THRESHOLD_FOR_SUMMARY)
        /\ Older(messages, RECENT_MESSAGES_TO_KEEP) # <<>>

\* the next conversation of the loop for which the summarizer is called,
\* 0 when the loop ends without a call
RECURSIVE NextDue(_, _, _, _)
NextDue(store, rows, from, upto) ==
    IF from > upto THEN 0
    ELSE IF WorkerDue(store, rows[from], from) THEN from
    ELSE NextDue(store, rows, from + 1, upto)

\* the worker at the summarizer call for conversation c, or idle
WorkerAt(c, upto) ==
    IF c = 0 THEN IdleWorker
    ELSE [pc |-> "summarizing", conv |-> c, upto |-> upto,
          snap |-> ConvMsgs(msgs, c), read |-> convs[c].memory_summary,
          run |-> nextRun, row |-> convs[c]]

NoteWorkerCall(c) ==
    IF c = 0 THEN UNCHANGED <<sumCalls, nextRun>>
    ELSE /\ sumCalls' = Append(sumCalls,
                SumCall(nextRun, "worker", c,
                        Older(ConvMsgs(msgs, c), RECENT_MESSAGES_TO_KEEP)))
         /\ nextRun' = nextRun + 1

\* a run starts and goes through the conversations up to the first call
\* of the summarizer
WorkerStart ==
    /\ worker.pc = "idle"
    /\ workerRuns < MaxWorkerRuns
    /\ workerRuns' = workerRuns + 1
    /\ LET c == NextDue(msgs, convs, 1, Len(convs))
       IN  /\ worker' = WorkerAt(c, Len(convs))
           /\ NoteWorkerCall(c)
    /\ UNCHANGED <<args, ret, TZ_OFFSET>>
    /\ UNCHANGED <<IS_PRODUCTION, convs, msgs, nextId, now, turn, left,
                   clearings>>

\* the summarizer call of the worker returns: the summary fields are
\* committed (rolled back when the commit raises) and the loop goes on
WorkerReturn(outcome, commitFails) ==
    /\ worker.pc = "summarizing"
    /\ LET older == Older(worker.snap, RECENT_MESSAGES_TO_KEEP)
           new_summary == generate_summary(older, worker.read, worker.run,
                                           outcome)
           c == NextDue(msgs, convs, worker.conv + 1, worker.upto)
       IN  /\ convs' = IF commitFails THEN convs
                       ELSE [convs EXCEPT ![worker.conv] =
                                Flushed(@, worker.row,
                                    Summarized(worker.row, new_summary,
                                               older, now))]
           /\ worker' = WorkerAt(c, worker.upto)
           /\ NoteWorkerCall(c)
    /\ UNCHANGED <<args, ret, TZ_OFFSET>>
    /\ UNCHANGED <<IS_PRODUCTION, msgs, nextId, now, turn, left,
                   workerRuns, clearings>>

(* ---------------------------------------------------------------------- *)
(* Nightly clearing (workers.py 246-320)                                  *)
(* ---------------------------------------------------------------------- *)
\* the conversation has messages and the latest of them is not younger
\* than the threshold: threshold = datetime.now() - timedelta(minutes=10)
\* is taken on the local clock of the server, Message.timestamp is UTC
ToClear(c) ==
    LET messages == ConvMsgs(msgs, c)
        threshold == LocalNow - ACTIVE_WINDOW
    IN  /\ messages # <<>>
        /\ ~(messages[Len(messages)].ts > threshold)

run_daily_chat_clearing ==
    /\ clearings < MaxClearings
    /\ clearings' = clearings + 1
    /\ msgs' = SelectSeq(msgs, LAMBDA m : ~ToClear(m.conv))
    /\ convs' = [c \in 1..Len(convs) |->
                    IF ToClear(c) THEN NewConversation ELSE convs[c]]
    /\ UNCHANGED <<args, ret, TZ_OFFSET>>
    /\ UNCHANGED <<IS_PRODUCTION, nextId, nextRun, now, turn, worker,
                   sumCalls, left, workerRuns>>

\* ten minutes pass
Tick ==
    /\ now < MaxTime
    /\ now' = now + 1
    /\ UNCHANGED <<args, ret, TZ_OFFSET>>
    /\ UNCHANGED <<IS_PRODUCTION, convs, msgs, nextId, nextRun, turn, worker,
                   sumCalls, left, workerRuns, clearings>>

(* ---------------------------------------------------------------------- *)
(* Specifications                                                         *)
(* ---------------------------------------------------------------------- *)
Transports == {"http", "ws"}

\* the requests, over the given inputs
Requests(texts, attachments, flags, titles, results, outcomes) ==
    \/ \E t \in Slots, tr \in Transports, x \in texts, files \in attachments,
          stream \in flags, saveFails \in flags :
            StartSend(t, tr, x, files, stream, saveFails)
    \/ \E t \in Slots, hasTitle \in titles, saveFails \in flags :
            StartAcceptWs(t, hasTitle, saveFails)
    \/ \E t \in Slots, complete \in titles, saveFails \in flags :
            AcceptHttp(t, complete, saveFails)
    \/ \E t \in Slots, hasTitle \in titles : StartRejectHttp(t, hasTitle)
    \/ \E t \in Slots, outcome \in outcomes, commitFails \in flags :
            SummaryReturn(t, outcome, commitFails)
    \/ \E t \in Slots, g \in results, dbFail \in flags :
            GenerateReturn(t, g, dbFail)
    \/ \E t \in Slots : Abandon(t)

\* Spec: requests that overlap with each other and with the summary
\* worker.  The texts are a short one and a longest one, without files;
\* no commit fails; the generator answers with a short chat or with a
\* recommendation; the summarizer answers or fails.
CoreTexts == { InText(7, 7), InText(MAX_MESSAGE_CHARS, MAX_MESSAGE_CHARS) }
CoreResults ==
    { ChatResult(ShortText("gen")),
      Result("recommendation", ShortText("rec"), TRUE, TRUE, NoText) }
CoreOutcomes == {"ok", "fail"}

Next ==
    \/ Requests(CoreTexts, {NoFiles}, {FALSE}, {TRUE}, CoreResults, CoreOutcomes)
    \/ WorkerStart
    \/ \E outcome \in CoreOutcomes : WorkerReturn(outcome, FALSE)
    \/ \E t \in Slots : HistoryRequest(t)

Spec == Init /\ [][Next]_vars

\* SpecTurn: requests with every shape of result of the generator and of
\* the summarizer, and commits that fail.
NextTurn ==
    Requests(CoreTexts, {NoFiles}, BOOLEAN, BOOLEAN, GenResults, SummarizerOutcomes)

SpecTurn == InitTurn /\ [][NextTurn]_vars

\* SpecLive: send turns, with a longest message, of which every call of a
\* collaborator returns or raises: the handler, a green thread of the one
\* worker process, goes on when the call it waits for is over.
NextLive ==
    \/ \E t \in Slots, tr \in Transports, stream \in BOOLEAN,
          saveFails \in BOOLEAN :
            StartSend(t, tr, InText(MAX_MESSAGE_CHARS, MAX_MESSAGE_CHARS),
                      NoFiles, stream, saveFails)
    \/ \E t \in Slots, outcome \in SummarizerOutcomes, commitFails \in BOOLEAN :
            SummaryReturn(t, outcome, commitFails)
    \/ \E t \in Slots, g \in GenResults, dbFail \in BOOLEAN :
            GenerateReturn(t, g, dbFail)

CallsReturn ==
    \A t \in Slots :
        /\ WF_vars(\E outcome \in SummarizerOutcomes, commitFails \in BOOLEAN :
                      SummaryReturn(t, outcome, commitFails))
        /\ WF_vars(\E g \in GenResults, dbFail \in BOOLEAN :
                      GenerateReturn(t, g, dbFail))

SpecLive == InitTurn /\ [][NextLive]_vars /\ CallsReturn

\* SpecFirst: the first requests of a user who has no conversation; two
\* send requests may both find none before either has created one.
InitFirst == Start(TRUE, <<>>, <<>>, MaxTurns + 1)

NextFirst ==
    \/ \E t \in Slots, tr \in Transports :
            ArriveSend(t, tr, InText(7, 7), NoFiles, FALSE)
    \/ \E t \in Slots : CreateAndSend(t, FALSE)
    \/ \E t \in Slots, tr \in Transports :
            StartSend(t, tr, InText(7, 7), NoFiles, FALSE, FALSE)
    \/ \E t \in Slots : StartAcceptWs(t, TRUE, FALSE)
    \/ \E t \in Slots : AcceptHttp(t, TRUE, FALSE)
    \/ \E t \in Slots : StartRejectHttp(t, TRUE)
    \/ \E t \in Slots : HistoryRequest(t)
    \/ \E t \in Slots, g \in CoreResults : GenerateReturn(t, g, FALSE)

SpecFirst == InitFirst /\ [][NextFirst]_vars

\* SpecValid: requests with every text and number of files of the
\* validation, in either deployment.
NextValid ==
    Requests(InTexts, InFiles, BOOLEAN, BOOLEAN, CoreResults,
             {"ok"})

SpecValid == InitValid /\ [][NextValid]_vars

\* a history of InitLen + 1 messages, user and bot in turn: a longest
\* user message, one of n characters, and short ones
NearHistory(n) ==
    [i \in 1..(InitLen + 1) |->
        IF i % 2 = 0 THEN PlainMsg(i, 1, "bot", OldBotText, 0)
        ELSE PlainMsg(i, 1, "user",
                      IF i = 1 THEN BigUserText
                      ELSE IF i = 3 THEN Plain("user", n)
                      ELSE SmallUserText, 0)]

\* lengths that bring the total of NearHistory to 1999, 2000 and 2001
NearLens == { 1642, 1645, 1649 }

\* SpecShort: requests and the worker on a conversation of which a turn
\* reads RECENT_MESSAGES_COUNT messages or one more, with few or many
\* tokens.
InitShort ==
    \E k \in 0..(MaxBig + 1), n \in {InitLen - 1, InitLen} :
        Start(TRUE, <<NewConversation>>, SubSeq(InitHistory(k), 1, n),
              MaxRequests)

SpecShort == InitShort /\ [][Next]_vars

\* SpecWorker: the worker and requests on a conversation the worker
\* looks at (more than RECENT_MESSAGES_TO_KEEP messages) whose token total
\* is just under, at or just over TOKEN_THRESHOLD_FOR_SUMMARY.
InitWorker ==
    \E n \in NearLens :
        Start(TRUE, <<NewConversation>>, NearHistory(n), MaxRequests)

SpecWorker == InitWorker /\ [][Next]_vars

\* SpecNight: requests and a run of the summary worker that overlap with
\* the nightly clearing, on a server whose local clock is UTC or ahead of
\* it, while time passes.
InitNight ==
    \E k \in 0..MaxBig, tz \in 0..MaxOffset :
        /\ AtRest(TRUE, <<NewConversation>>, InitHistory(k), MaxRequests)
        /\ args = NoArgs
        /\ ret = NoRet
        /\ TZ_OFFSET = tz

NextNight ==
    \/ Requests(CoreTexts, {NoFiles}, {FALSE}, {TRUE}, CoreResults, {"ok"})
    \/ WorkerStart
    \/ WorkerReturn("ok", FALSE)
    \/ run_daily_chat_clearing
    \/ Tick

SpecNight == InitNight /\ [][NextNight]_vars

(* ---------------------------------------------------------------------- *)
(* The functions on their own                                             *)
(* ---------------------------------------------------------------------- *)
\* a history of n messages, user and bot in turn
HistoryOf(n) ==
    [i \in 1..n |->
        PlainMsg(i, 1, IF i % 2 = 1 THEN "user" ELSE "bot",
                 IF i % 2 = 1 THEN SmallUserText ELSE OldBotText, 0)]

\* the values of memory_summary: None, the empty string, a summary
SummaryValues ==
    { NoSummary,
      Summary(Plain("summary", 0), 1, 0, TRUE),
      Summary(Plain("summary", 70), 1, 0, TRUE) }

FilterArgs ==
    { [NoArgs EXCEPT !.fn = "filter_messages_for_llm",
                     !.all_messages = HistoryOf(n),
                     !.memory_summary = s,
                     !.recent_count = r] :
        n \in 0..MaxN, s \in SummaryValues, r \in 0..MaxR }

TriggerArgs ==
    { [NoArgs EXCEPT !.fn = "should_summarize",
                     !.history_tokens = h,
                     !.summary_tokens = s,
                     !.new_message_tokens = n,
                     !.threshold = t] :
        h \in 0..MaxTok, s \in 0..MaxTok, n \in 0..MaxTok,
        t \in 0..MaxTok }

\* a sentence that is followed by another one ends with its punctuation
\* and one whitespace; the last one ends with or without whitespace
SentLens == {30, 90, 160}
InnerSents == { Sent(l, 1) : l \in SentLens }
LastSents == { Sent(l, w) : l \in SentLens, w \in {0, 1} }
\* the empty text, a whitespace, texts of up to MaxSents sentences
ChunkTexts ==
    { Text("in", <<>>), Text("in", <<Sent(1, 1)>>) } \cup
    { Text("in", ss \o <<l>>) :
        ss \in UNION { [1..k -> InnerSents] : k \in 0..(MaxSents - 1) },
        l \in LastSents }

ChunkArgs ==
    { [NoArgs EXCEPT !.fn = "split_into_chunks",
                     !.text = x,
                     !.max_chunk_size = MAX_CHUNK_SIZE] : x \in ChunkTexts }

\* a history of u messages of the user, the last of them stored at the
\* time at; bot tells whether a bot message, stored at the time was,
\* comes before the last of them
TimedHistory(u, bot, was, at) ==
    LET before == [i \in 1..Max(u - 1, 0) |->
                      PlainMsg(i, 1, "user", SmallUserText, 0)]
        reply == IF bot THEN <<PlainMsg(u, 1, "bot", OldBotText, was)>>
                 ELSE <<>>
        last == IF u > 0
                THEN <<PlainMsg(u + 1, 1, "user", SmallUserText, at)>>
                ELSE <<>>
    IN  before \o reply \o last

\* utc_now() at the call: 11.30 h and 15.30 h of a second day
CallTimes == { 24 * 6 + 11 * 6 + 3, 24 * 6 + 15 * 6 + 3 }
\* the last bot message is twenty minutes or two hours old
BotAges == { 2, 12 }

ContextInfoArgs ==
    { [NoArgs EXCEPT !.fn = "should_send_context_info",
                     !.conversation_history = TimedHistory(u, bot, at - age, at),
                     !.now = at] :
        u \in 0..MaxUsers, bot \in BOOLEAN, age \in BotAges,
        at \in CallTimes }

\* None, and the texts of up to MaxChars characters
TokenArgs ==
    { [NoArgs EXCEPT !.fn = "count_tokens", !.text = NoText] } \cup
    { [NoArgs EXCEPT !.fn = "count_tokens", !.text = Plain("in", n)] :
        n \in 0..MaxChars }

\* the rows of one conversation as a session wrote them: ids go up by one
\* and every row takes its timestamp from its own reading of the clock
\* (default=utc_now), which has advanced since the reading before it
\* (ds[i] = 1) or has not (ds[i] = 0)
RECURSIVE StampOf(_, _)
StampOf(ds, i) == IF i = 0 THEN 0 ELSE StampOf(ds, i - 1) + ds[i]
StampedRows(ds) ==
    [i \in 1..Len(ds) |->
        PlainMsg(i, 1, IF i % 2 = 1 THEN "user" ELSE "bot",
                 Plain("row", 7), StampOf(ds, i))]
ReadArgs ==
    { [NoArgs EXCEPT !.fn = "order_by_timestamp",
                     !.all_messages = StampedRows(ds)] :
        ds \in UNION { [1..n -> 0..1] : n \in 1..MaxN } }

\* what ORDER BY timestamp ASC may return of these rows: every arrangement
\* of them in which no timestamp goes down; the query names no second key,
\* so rows of one timestamp come in the order the database chooses
order_by_timestamp(rows) ==
    { [i \in 1..Len(rows) |-> rows[p[i]]] :
        p \in { q \in [1..Len(rows) -> 1..Len(rows)] :
                  /\ \A i, j \in 1..Len(rows) : q[i] = q[j] => i = j
                  /\ \A i, j \in 1..Len(rows) :
                        i < j => rows[q[i]].ts <= rows[q[j]].ts } }

\* no request, no worker: one call of one function, on arguments of the
\* sets above; should_send_context_info also reads the clock of the
\* server, which is UTC or ahead of it
InitPure ==
    /\ AtRest(TRUE, <<>>, <<>>, 0)
    /\ ret = NoRet
    /\ \/ /\ args \in FilterArgs \cup TriggerArgs \cup ChunkArgs
                      \cup TokenArgs \cup ReadArgs
          /\ TZ_OFFSET = 0
       \/ /\ args \in ContextInfoArgs
          /\ TZ_OFFSET \in 0..MaxOffset

CallFilter ==
    /\ args.fn = "filter_messages_for_llm" /\ ~ret.done
    /\ ret' = [ret EXCEPT !.done = TRUE,
                          !.context = filter_messages_for_llm(
                              args.all_messages, args.memory_summary,
                              args.recent_count)]
    /\ UNCHANGED <<IS_PRODUCTION, convs, msgs, nextId, nextRun, now, turn,
                   worker, sumCalls, left, workerRuns, clearings, args,
                   TZ_OFFSET>>

CallShouldSummarize ==
    /\ args.fn = "should_summarize" /\ ~ret.done
    /\ ret' = [ret EXCEPT !.done = TRUE,
                          !.should = should_summarize(
                              args.history_tokens, args.summary_tokens,
                              args.new_message_tokens, args.threshold)]
    /\ UNCHANGED <<IS_PRODUCTION, convs, msgs, nextId, nextRun, now, turn,
                   worker, sumCalls, left, workerRuns, clearings, args,
                   TZ_OFFSET>>

CallSplit ==
    /\ args.fn = "split_into_chunks" /\ ~ret.done
    /\ ret' = [ret EXCEPT !.done = TRUE,
                          !.chunks = split_into_chunks(args.text,
                                                      args.max_chunk_size)]
    /\ UNCHANGED <<IS_PRODUCTION, convs, msgs, nextId, nextRun, now, turn,
                   worker, sumCalls, left, workerRuns, clearings, args,
                   TZ_OFFSET>>

CallContextInfo ==
    /\ args.fn = "should_send_context_info" /\ ~ret.done
    /\ ret' = [ret EXCEPT !.done = TRUE,
                          !.info = should_send_context_info(
                              args.conversation_history,
                              HourOf(args.now + 6 * TZ_OFFSET))]
    /\ UNCHANGED <<IS_PRODUCTION, convs, msgs, nextId, nextRun, now, turn,
                   worker, sumCalls, left, workerRuns, clearings, args,
                   TZ_OFFSET>>

CallCountTokens ==
    /\ args.fn = "count_tokens" /\ ~ret.done
    /\ ret' = [ret EXCEPT !.done = TRUE, !.tokens = count_tokens(args.text)]
    /\ UNCHANGED <<IS_PRODUCTION, convs, msgs, nextId, nextRun, now, turn,
                   worker, sumCalls, left, workerRuns, clearings, args,
                   TZ_OFFSET>>

CallOrderByTimestamp ==
    /\ args.fn = "order_by_timestamp" /\ ~ret.done
    /\ \E read \in order_by_timestamp(args.all_messages) :
          ret' = [ret EXCEPT !.done = TRUE, !.context = read]
    /\ UNCHANGED <<IS_PRODUCTION, convs, msgs, nextId, nextRun, now, turn,
                   worker, sumCalls, left, workerRuns, clearings, args,
                   TZ_OFFSET>>

NextPure ==
    \/ CallOrderByTimestamp
    \/ CallFilter
    \/ CallShouldSummarize
    \/ CallSplit
    \/ CallContextInfo
    \/ CallCountTokens

SpecPure == InitPure /\ [][NextPure]_vars

(* ---------------------------------------------------------------------- *)
(* Properties                                                             *)
(* ---------------------------------------------------------------------- *)
\* the ids of the messages of a context (the summary entry is not one)
Window(ctx) ==
    { ctx[i].mid : i \in { j \in 1..Len(ctx) : ctx[j].role # "system" } }

\* task t has built its context in this step
ContextBuilt(t) == turn[t].pc # "generating" /\ turn'[t].pc = "generating"

\* the messages task t read for the context it has built in this step
ReadFor(t) ==
    IF turn[t].pc = "summarizing" THEN turn[t].snap
    ELSE ConvMsgs(msgs', turn'[t].conv)

\* every one of the messages is among the first pruned_count or in the
\* context, and not both
Partitioned(all, row, ctx) ==
    \A i \in 1..Len(all) :
        (i <= row.pruned_count) # (all[i].id \in Window(ctx))

\* C1: once a summarization has been committed, whenever a turn builds its
\* context, every stored message of the conversation (every message the
\* turn read from the store) is either one of the messages handed to the
\* generator or one of the first pruned_count messages that the summary
\* covers, never both and never neither.
C1_Partition ==
    [][\A t \in Slots :
          (ContextBuilt(t) /\ ~convs'[turn'[t].conv].memory_summary.isNull)
            => Partitioned(ReadFor(t), convs'[turn'[t].conv],
                           turn'[t].ctx)]_vars

\* C2: pruned_count of a conversation never decreases (no clearing takes
\* place), however turns and the worker interleave.
C2_Monotone ==
    [][\A c \in 1..Len(convs) :
          convs'[c].pruned_count >= convs[c].pruned_count]_vars

\* the ids of the first n messages of conversation c
CoveredIds(store, c, n) ==
    LET all == ConvMsgs(store, c)
    IN  { all[i].id : i \in 1..Min(n, Len(all)) }

\* C3: no message is sent to the summarizer twice: when the summarizer is
\* called for a conversation that has a summary, none of the messages
\* handed to it is among the first pruned_count that the summary covers.
C3_NoResend ==
    [][Len(sumCalls') > Len(sumCalls)
          => LET call == sumCalls'[Len(sumCalls')]
                 row == convs'[call.conv]
             IN  row.memory_summary.isNull
                 \/ { call.older[i] : i \in 1..Len(call.older) }
                        \cap CoveredIds(msgs', call.conv, row.pruned_count)
                    = {}]_vars

\* the task is at a call of the summarizer or of the generator
InCall(r) == r.pc \in {"summarizing", "generating"}

\* the user Message of the request of the task is in the store
Stored(r) ==
    \E i \in 1..Len(msgs) :
        /\ msgs[i].id = r.umsg
        /\ msgs[i].sender = "user"
        /\ msgs[i].conv = r.conv

\* C4: in every turn that records a user Message (send over HTTP, send and
\* accept over WebSocket), the Message is committed before the first
\* call of the summarizer or the generator: while a call is in flight
\* the Message is in the store and among the messages the turn read, and
\* it stays in the store when the turn is given up or ends.
C4_PersistFirst ==
    \A t \in Slots :
        LET r == turn[t]
        IN  r.op \in {"send", "accept"} =>
              /\ InCall(r) => Stored(r)
              /\ r.pc = "summarizing" =>
                    \E i \in 1..Len(r.snap) : r.snap[i].id = r.umsg
              /\ r.pc = "generating" => r.umsg \in Window(r.ctx)
              /\ (r.pc = "done" /\ r.umsg # 0) => Stored(r)

\* a send turn is at the call of the summarizer, its Message stored
C4_Witness ==
    \E t \in Slots :
        /\ turn[t].op = "send"
        /\ turn[t].pc = "summarizing"
        /\ Stored(turn[t])

\* task t has got the result of the generator in this step
Replied(t) ==
    /\ turn[t].pc = "generating"
    /\ turn'[t].pc = "done"
    /\ turn'[t].res.type # "none"

\* task t has taken a request of the kind op in this step
Taken(t, op) == CanStart(t) /\ left' = left - 1 /\ turn'[t].op = op

\* the rows appended in this step
NewRows == SubSeq(msgs', Len(msgs) + 1, Len(msgs'))

WellFormed(g) == g.hasTitle /\ g.hasContent

\* over HTTP every result of type recommendation is returned unstored;
\* over WebSocket one that has title and content is
HandledAsRecommendation(r) == r.tr = "http" \/ WellFormed(r.res)

\* what holds of every step for C5: of every result of type
\* recommendation (all), or of those handled as a recommendation
NoRecommendationStored(all) ==
    /\ \A t \in Slots :
          Replied(t) =>
            LET r == turn'[t]
            IN  /\ (r.op = "send" /\ r.res.type = "recommendation"
                       /\ (all \/ HandledAsRecommendation(r)))
                      => msgs' = msgs
                /\ (r.op = "send" /\ r.res.type = "chat_and_recommendation")
                      => \A i \in 1..Len(NewRows) :
                            NewRows[i].text.src # "rec"
    /\ \A t \in Slots :
          (Taken(t, "reject") \/ (turn[t].op = "reject" /\ Replied(t)))
            => msgs' = msgs
    /\ \A i \in 1..Len(NewRows) :
          NewRows[i].text \in {RecTitleText, RecPairText}
            => \E t \in Slots : Taken(t, "accept")

\* C5 as stated: a Message holding a recommendation is appended only by
\* an accept; handling a result of type recommendation appends no
\* Message; the recommendation of a chat_and_recommendation result is not
\* appended; a reject appends no Message.
C5_Original == [][NoRecommendationStored(TRUE)]_vars

\* C5 amended: as C5, for the results of type recommendation that carry a
\* title and a content (over WebSocket a result without one of them is
\* handled as a chat reply and stored).
C5_AcceptOnly == [][NoRecommendationStored(FALSE)]_vars

\* a send turn over WebSocket has delivered a recommendation
C5_Witness ==
    \E t \in Slots :
        /\ turn[t].pc = "done" /\ turn[t].op = "send" /\ turn[t].tr = "ws"
        /\ turn[t].res.type = "recommendation" /\ WellFormed(turn[t].res)
        /\ \E i \in 1..Len(turn[t].out) :
              turn[t].out[i].type = "recommendation"

\* the task has handled a result of type recommendation of a send turn
GotRecommendation(r) ==
    r.pc = "done" /\ r.op = "send" /\ r.res.type = "recommendation"

\* the reply is delivered as one event that is not a chunk
OneEvent(r) ==
    /\ Len(Delivered(r.out)) = 1
    /\ Delivered(r.out)[1].type # "chunk"

\* C6 as stated: a result of type recommendation, whatever its length and
\* fields, is delivered as exactly one event and never in chunks.
C6_Original ==
    \A t \in Slots : GotRecommendation(turn[t]) => OneEvent(turn[t])

\* C6 amended: a result of type recommendation that carries a title and a
\* content is delivered, whatever its length, as exactly one
\* recommendation event holding the whole content, never in chunks; over
\* HTTP one that lacks a title or a content is delivered as one chat
\* event (over WebSocket it is delivered as a chat reply, in chunks when
\* it is longer than CHUNK_THRESHOLD).
C6_Whole ==
    \A t \in Slots :
        LET r == turn[t]
        IN  (GotRecommendation(r) /\ HandledAsRecommendation(r)) =>
              /\ OneEvent(r)
              /\ WellFormed(r.res) =>
                    /\ Delivered(r.out)[1].type = "recommendation"
                    /\ Delivered(r.out)[1].text = r.res.content

\* a recommendation longer than MAX_CHUNK_SIZE has been delivered
C6_Witness ==
    \E t \in Slots :
        /\ GotRecommendation(turn[t]) /\ WellFormed(turn[t].res)
        /\ TextLen(turn[t].res.content) > MAX_CHUNK_SIZE
        /\ Len(Delivered(turn[t].out)) = 1

\* the text of the chat part of a result is in the store as bot Messages
\* of the conversation
ChatStored(r, d) ==
    \A i \in 1..(Len(d) - 1) :
        \E j \in 1..Len(msgs) :
            /\ msgs[j].text = d[i].text
            /\ msgs[j].sender = "bot"
            /\ msgs[j].conv = r.conv

\* C7: for a chat_and_recommendation result with a non-empty chat part and
\* a recommendation that has title and content, on either transport, the
\* chat part is stored and delivered (its chunks in index order) before
\* the one recommendation event, and the recommendation is not stored
\* (read for the turns whose write of the reply does not raise).
C7_ChatThenRecommendation ==
    \A t \in Slots :
        LET r == turn[t]
            d == Delivered(r.out)
            chunks == split_into_chunks(r.res.chat, MAX_CHUNK_SIZE)
        IN  (r.pc = "done" /\ r.op = "send" /\ ~r.failed
               /\ r.res.type = "chat_and_recommendation"
               /\ HybridComplete(r.res)) =>
              /\ Len(d) >= 2
              /\ d[Len(d)].type = "recommendation"
              /\ d[Len(d)].text = r.res.content
              /\ \A i \in 1..(Len(d) - 1) :
                    \/ d[i].type = "chat" /\ Len(d) = 2
                          /\ d[i].text = r.res.chat
                    \/ d[i].type = "chunk" /\ d[i].idx = i - 1
                          /\ Len(chunks) = Len(d) - 1
                          /\ d[i].text = chunks[i]
              /\ ChatStored(r, d)
              /\ \A j \in 1..Len(msgs) : msgs[j].text.src # "rec"

\* C8: when the generator raises, at every call site, the fixed fallback
\* text is delivered as the reply and no bot Message holding it is
\* appended.
C8_FallbackNotStored ==
    \A t \in Slots :
        LET r == turn[t]
            d == Delivered(r.out)
        IN  (r.pc = "done" /\ r.res.type = "raise") =>
              /\ Len(d) = 1
              /\ d[1].type = "chat"
              /\ d[1].text = FallbackText
              /\ \A j \in 1..Len(msgs) : msgs[j].text # FallbackText

\* the errors of the validation of a send turn
ValidationErrors ==
    { ErrorEv("EmptyMessage"), ErrorEv("MessageTooLong"),
      ErrorEv("TooManyAttachments") }

\* the send turn of the task was rejected by the validation
Rejected(r) ==
    /\ r.pc = "done" /\ r.op = "send"
    /\ Len(r.out) = 1
    /\ r.out[1] \in ValidationErrors

\* C9: a send turn rejected by the validation leaves the stores as they
\* were: no Conversation is created, no Message is appended, no summary
\* field is written, and neither the summarizer nor the generator is
\* called (a turn whose input does not pass ends without a call).
C9_RejectedUnchanged ==
    [][\A t \in Slots :
          /\ (Taken(t, "send") /\ Rejected(turn'[t])) =>
                /\ convs' = convs
                /\ msgs' = msgs
                /\ nextId' = nextId
                /\ sumCalls' = sumCalls
                /\ nextRun' = nextRun
          /\ (turn'[t].op = "send"
                /\ Validate(turn'[t].tr, turn'[t].x, turn'[t].files) # "ok")
                => ~InCall(turn'[t])]_vars

\* the send turn of a new user has been rejected: there is no
\* Conversation and no Message
C9_Witness ==
    \E t \in Slots :
        Rejected(turn[t]) /\ convs = <<>> /\ msgs = <<>> /\ sumCalls = <<>>

\* the task has taken a send request
SendSeen(r) == r.op = "send" /\ r.pc # "idle"

\* the input is blank, or too long, or has too many attachments
ClaimedInvalid(x, files) ==
    \/ Blank(x)
    \/ x.raw > MAX_MESSAGE_CHARS
    \/ files.n > MAX_ATTACHMENTS

\* what handle_send_message rejects
WsInvalid(x, files) ==
    \/ files.n > MAX_ATTACHMENTS
    \/ Blank(x) /\ files.names = 0
    \/ x.stripped > MAX_MESSAGE_CHARS

UserWriteFailed(r) == r.op = "send" /\ r.failed /\ r.res.type = "none"

\* C11: when the write of the inbound user Message fails, the turn is
\* aborted: it ends at once with an error event as its only event, no
\* Message is appended, and neither the summarizer nor the generator is
\* called.
C11_Aborted ==
    [][\A t \in Slots :
          (Taken(t, "send") /\ UserWriteFailed(turn'[t])) =>
              /\ turn'[t].pc = "done"
              /\ Len(turn'[t].out) = 1
              /\ turn'[t].out[1].type = "error"
              /\ msgs' = msgs
              /\ nextId' = nextId
              /\ sumCalls' = sumCalls
              /\ nextRun' = nextRun]_vars

\* the write of the user Message failed in a conversation that has
\* messages
C11_Witness ==
    \E t \in Slots :
        /\ UserWriteFailed(turn[t]) /\ turn[t].pc = "done"
        /\ Len(msgs) = InitLen

\* the reply text a generator result carries: the content of a chat
\* result, the chat part of a hybrid result
Produced(g) == IF g.type = "chat" THEN g.content ELSE g.chat

\* the write of the bot reply of the send turn raised
ReplyWriteFailed(r) ==
    /\ r.pc = "done" /\ r.op = "send" /\ r.failed
    /\ r.res.type \in {"chat", "chat_and_recommendation"}
    /\ Truthy(Produced(r.res))

\* C12: when the write of the bot reply fails, the user is still
\* delivered, as a chat event, the text the generator produced: the
\* content of a chat result, the chat part of a hybrid result.
C12_ReplyDelivered ==
    \A t \in Slots :
        ReplyWriteFailed(turn[t]) =>
            \E i \in 1..Len(turn[t].out) :
                /\ turn[t].out[i].type = "chat"
                /\ turn[t].out[i].text = Produced(turn[t].res)

\* s is the placeholder written for the summarizer call numbered run
PlaceholderOf(s, run) ==
    ~s.isNull /\ s.run = run /\ s.text.src = "placeholder"

\* C13: a failure of the summarizer call does not end the turn or the
\* run of the worker: the placeholder that counts the messages handed to
\* the summarizer is committed as the summary, the turn goes on to the
\* generator with the context filtered under that placeholder, and the
\* worker goes on with the next conversation.
C13_PlaceholderAndGoOn ==
    [][/\ \A t \in Slots :
             (/\ turn[t].pc = "summarizing"
              /\ PlaceholderOf(convs'[turn[t].conv].memory_summary,
                               turn[t].run)) =>
                 LET older == Older(turn[t].snap, RECENT_MESSAGES_COUNT)
                     s == convs'[turn[t].conv].memory_summary
                 IN  /\ s.n = Len(older)
                     /\ s.text = Plain("placeholder", PlaceholderLen)
                     /\ turn'[t].pc = "generating"
                     /\ turn'[t].out = turn[t].out
                     /\ turn'[t].ctx =
                            <<SummaryEntry(s)>> \o
                            [i \in 1..RECENT_MESSAGES_COUNT |->
                                MsgEntry(turn[t].snap[Len(older) + i])]
       /\ (/\ worker.pc = "summarizing"
           /\ PlaceholderOf(convs'[worker.conv].memory_summary,
                            worker.run)) =>
              LET older == Older(worker.snap, RECENT_MESSAGES_TO_KEEP)
                  s == convs'[worker.conv].memory_summary
              IN  /\ s.n = Len(older)
                  /\ s.text = Plain("placeholder", PlaceholderLen)
                  /\ worker'.pc \in {"idle", "summarizing"}
                  /\ worker'.conv # worker.conv]_vars

\* a turn is at the generator under the placeholder its own summarizer
\* call left
C13_Witness ==
    \E t \in Slots :
        /\ turn[t].pc = "generating"
        /\ Len(turn[t].ctx) = RECENT_MESSAGES_COUNT + 1
        /\ turn[t].ctx[1].text.src = "placeholder"
        /\ \E i \in 1..Len(sumCalls) :
               /\ sumCalls[i].by = "turn"
               /\ sumCalls[i].conv = turn[t].conv
               /\ PlaceholderOf(convs[turn[t].conv].memory_summary,
                                sumCalls[i].run)

\* the call of filter_messages_for_llm has returned
Filtered == args.fn = "filter_messages_for_llm" /\ ret.done

\* C14: for a history of N messages, a recent_count of R and any value of
\* the summary, filter_messages_for_llm returns at most R + 1 entries,
\* and exactly R + 1 entries when N > R and the summary is not null.
C14_AtMostRPlusOne ==
    Filtered =>
        LET N == Len(args.all_messages)
            R == args.recent_count
        IN  /\ Len(ret.context) <= R + 1
            /\ (N > R /\ ~args.memory_summary.isNull) =>
                   Len(ret.context) = R + 1

\* the summary fields of row are those of the summarization numbered
\* run, which read n messages and kept the last keep of them
FieldsOf(row, run, n, keep) ==
    /\ ~row.memory_summary.isNull
    /\ row.memory_summary.run = run
    /\ row.pruned_count = n - keep
    /\ row.last_summary_at = now

\* C15: the commit of a summarization that read N messages, made by a
\* turn or by the worker, leaves pruned_count = N - R, and writes
\* memory_summary, pruned_count and last_summary_at together.
C15_PrunedCount ==
    [][/\ \A t \in Slots :
             (turn[t].pc = "summarizing" /\ turn'[t].pc = "generating") =>
                 FieldsOf(convs'[turn[t].conv], turn[t].run,
                          Len(turn[t].snap), RECENT_MESSAGES_COUNT)
       /\ (worker.pc = "summarizing" /\ worker' # worker) =>
              FieldsOf(convs'[worker.conv], worker.run,
                       Len(worker.snap), RECENT_MESSAGES_TO_KEEP)
       /\ \A c \in DOMAIN convs :
              convs'[c] # convs[c] =>
                  /\ convs'[c].memory_summary # convs[c].memory_summary
                  /\ convs'[c].pruned_count = convs'[c].memory_summary.n
                  /\ convs'[c].last_summary_at = now]_vars

\* the send turn t arrives and goes to the summarizer
ArrivesAndSummarizes(t) ==
    Taken(t, "send") /\ turn'[t].pc = "summarizing"

\* the ids of the messages of the last call of the summarizer
LastFolded(calls) == calls[Len(calls)].older

Triggered == args.fn = "should_summarize" /\ ret.done

\* C17: should_summarize(h, s, n, t) is true exactly when h + s + n > t,
\* for non-negative h, s, n, t; it is false when h + s + n = t.
C17_StrictlyAbove ==
    Triggered =>
        LET total == args.history_tokens + args.summary_tokens
                     + args.new_message_tokens
        IN  /\ total > args.threshold => ret.should
            /\ total < args.threshold => ~ret.should
            /\ total = args.threshold => ~ret.should

\* the function has returned false at the threshold and with tokens
C17_Witness ==
    /\ Triggered
    /\ args.history_tokens > 0 /\ args.summary_tokens > 0
    /\ args.new_message_tokens > 0
    /\ args.history_tokens + args.summary_tokens + args.new_message_tokens
           = args.threshold
    /\ ~ret.should

\* C18: the output of filter_messages_for_llm is determined by its
\* inputs: for a summary that is null or a text that is not empty, it is
\* one system entry that carries the summary, present exactly when the
\* summary is not null, followed by the last min(N, R) entries of
\* all_messages, in their order and unchanged.
C18_ExactOutput ==
    (/\ Filtered
     /\ args.memory_summary.isNull \/ Truthy(args.memory_summary.text)) =>
        LET N == Len(args.all_messages)
            m == Min(N, args.recent_count)
            head == IF args.memory_summary.isNull THEN <<>>
                    ELSE <<[role |-> "system", mid |-> 0,
                            text |-> args.memory_summary.text]>>
        IN  ret.context =
                head \o [i \in 1..m |->
                            MsgEntry(args.all_messages[N - m + i])]

\* the call of split_into_chunks has returned
Split == args.fn = "split_into_chunks" /\ ret.done

\* "".join(chunks), as sentences
RECURSIVE Joined(_)
Joined(chunks) ==
    IF chunks = <<>> THEN <<>>
    ELSE Head(chunks).sents \o Joined(Tail(chunks))

\* C19: the chunks of split_into_chunks(text, 150), joined in index
\* order, are the text itself, here for a text that does not end with
\* whitespace: a short one, one without punctuation, one of several
\* sentences.
C19_RoundTrip ==
    (Split /\ StrippedLen(args.text) = TextLen(args.text)) =>
        /\ Joined(ret.chunks) = args.text.sents
        /\ SentsLen(Joined(ret.chunks)) = TextLen(args.text)

\* C20 as stated: for every text, the empty one and a whitespace
\* included, split_into_chunks returns a list that is not empty, of
\* strings that are not empty.
C20_Original ==
    Split =>
        /\ Len(ret.chunks) >= 1
        /\ \A i \in 1..Len(ret.chunks) : TextLen(ret.chunks[i]) > 0

\* C20: for every text split_into_chunks returns a list that is not
\* empty.  For a text that has a character other than whitespace every
\* chunk is a stripped string that is not empty; a text that is empty
\* or all whitespace is returned as the only chunk, as it is, so the
\* empty text gives one empty string.
C20_NonEmptyList ==
    Split =>
        /\ Len(ret.chunks) >= 1
        /\ IF StrippedLen(args.text) > 0
           THEN \A i \in 1..Len(ret.chunks) :
                    /\ TextLen(ret.chunks[i]) > 0
                    /\ StrippedLen(ret.chunks[i]) = TextLen(ret.chunks[i])
           ELSE ret.chunks = <<args.text>>

\* a text that is all whitespace has been returned as the only chunk
C20_Witness ==
    /\ Split
    /\ TextLen(args.text) > 0 /\ StrippedLen(args.text) = 0
    /\ Len(ret.chunks) = 1

\* the sentences of the chunks, in order
RECURSIVE SentencesOf(_)
SentencesOf(chunks) ==
    IF chunks = <<>> THEN <<>>
    ELSE Head(chunks).sents \o SentencesOf(Tail(chunks))

\* the chunk ends where a sentence of the text ends: its sentences are
\* whole, and only the whitespace after the last of them is gone
EndsAtBoundary(chunk) ==
    /\ chunk.sents # <<>>
    /\ chunk.sents[Len(chunk.sents)].ws = 0
    /\ \A j \in 1..(Len(chunk.sents) - 1) : chunk.sents[j].ws > 0

\* C21: every chunk of split_into_chunks ends at the end of a sentence
\* or of the text, the sentences of the text go whole and in order into
\* the chunks, and a chunk of two or more sentences is never longer
\* than max_chunk_size.
C21_SentenceAligned ==
    (Split /\ StrippedLen(args.text) > 0) =>
        LET got == SentencesOf(ret.chunks)
            was == args.text.sents
        IN  /\ Len(got) = Len(was)
            /\ \A j \in 1..Len(was) :
                   got[j].len \in {was[j].len, was[j].len - was[j].ws}
            /\ \A i \in 1..Len(ret.chunks) :
                   /\ EndsAtBoundary(ret.chunks[i])
                   /\ Len(ret.chunks[i].sents) >= 2 =>
                          TextLen(ret.chunks[i]) <= args.max_chunk_size

\* a text was split into a chunk of several sentences and a chunk of one
\* sentence that is longer than max_chunk_size
C21_Witness ==
    /\ Split
    /\ \E i, j \in 1..Len(ret.chunks) :
           /\ Len(ret.chunks[i].sents) >= 2
           /\ Len(ret.chunks[j].sents) = 1
           /\ TextLen(ret.chunks[j]) > args.max_chunk_size

\* the number of messages of the user in a history
UserCount(history) ==
    Len(SelectSeq(history, LAMBDA m : m.sender = "user"))

\* the task t goes to the generator for a user Message it has stored
CallsGeneratorFor(t) ==
    /\ turn[t].pc # "generating" /\ turn'[t].pc = "generating"
    /\ turn'[t].umsg # 0

\* C23: the name of the user goes to the generator exactly when the
\* messages of the user in the history, the one just stored included,
\* number 1 modulo 10, or the history has fewer than 2 messages: on the
\* 1st, 11th, 21st, ... message of the user and on no other.
C23_NameCadence ==
    [][\A t \in Slots :
          CallsGeneratorFor(t) =>
              LET history == ConvMsgs(msgs', turn'[t].conv)
              IN  turn'[t].name <=>
                      \/ UserCount(history) % 10 = 1
                      \/ Len(history) < 2]_vars

\* the call of should_send_context_info has returned
Informed == args.fn = "should_send_context_info" /\ ret.done

\* the time of day on the local clock of the server at the time t
LocalTimeOfDay(t) == TimeOfDay(HourOf(t + 6 * TZ_OFFSET))

\* C24: should_send_context_info returns send_time = true exactly when
\* the history has fewer than 2 messages, or has no bot message, or the
\* time of day of its last bot message is not the current one, both
\* taken on the local clock of the server.
C24_TimeOnOneClock ==
    Informed =>
        LET history == args.conversation_history
            bots == SelectSeq(history, LAMBDA m : m.sender = "bot")
        IN  ret.info.send_time <=>
                \/ Len(history) < 2
                \/ bots = <<>>
                \/ LocalTimeOfDay(bots[Len(bots)].ts)
                       # LocalTimeOfDay(args.now)

\* the call of count_tokens has returned
Counted == args.fn = "count_tokens" /\ ret.done

\* C25: count_tokens(text) is 0 for no text and for the empty text, and
\* max(ceil(len(text) / 3.5), 1) for any other text, hence never below
\* len(text) / 3.5.
C25_Ceiling ==
    Counted =>
        LET n == TextLen(args.text)
        IN  /\ n = 0 => ret.tokens = 0
            /\ n > 0 => /\ ret.tokens = Max((2 * n + 6) \div 7, 1)
                        /\ 7 * ret.tokens >= 2 * n

\* the rows of the group g, in the order of the store
GroupRows(store, g) == SelectSeq(store, LAMBDA m : m.grp = g)

\* every group of the store is whole: n bot Messages of one conversation
\* with chunk_index 0..n-1 and total_chunks n
GroupsWhole(store) ==
    \A i \in 1..Len(store) :
        store[i].grp # 0 =>
            LET rows == GroupRows(store, store[i].grp)
            IN  /\ Len(rows) = store[i].total
                /\ \A k \in 1..Len(rows) :
                       /\ rows[k].idx = k - 1
                       /\ rows[k].total = Len(rows)
                       /\ rows[k].sender = "bot"
                       /\ rows[k].conv = store[i].conv

\* the text of the reply a result is chunked from
ReplyText(g) ==
    IF g.type = "chat_and_recommendation" THEN g.chat ELSE g.content

\* C22: the chunks of a reply are stored in one commit as bot Messages
\* of one new group id with chunk_index 0..n-1 and total_chunks n, so
\* that every group in the store is whole, and in index order they are
\* the output of the chunker for the reply.
C22_WholeGroups ==
    [][/\ GroupsWhole(msgs')
       /\ \A t \in Slots :
              (turn[t].pc = "generating" /\ turn'[t].pc = "done") =>
                  LET new == SubSeq(msgs', Len(msgs) + 1, Len(msgs'))
                  IN  (new # <<>> /\ new[1].grp # 0) =>
                          /\ \A k \in 1..Len(new) : new[k].grp = new[1].grp
                          /\ GroupRows(msgs, new[1].grp) = <<>>
                          /\ [k \in 1..Len(new) |-> new[k].text] =
                                 split_into_chunks(ReplyText(turn'[t].res),
                                                   MAX_CHUNK_SIZE)]_vars

\* a reply of two chunks is in the store
C22_Witness ==
    \E i \in 1..Len(msgs) :
        /\ msgs[i].grp # 0 /\ msgs[i].total = 2 /\ msgs[i].idx = 1


\* a summarizer call of a turn or of the worker returns in this step
SummarizerReturns ==
    \/ \E t \in Slots :
           turn[t].pc = "summarizing" /\ turn'[t].pc # "summarizing"
    \/ worker.pc = "summarizing" /\ worker' # worker

\* the positions in the store of the messages of conversation c
RowsOf(store, c) == { i \in 1..Len(store) : store[i].conv = c }

\* C26: a summarization, inline or by the worker, leaves every Message
\* row as it is and writes nothing but the summary fields of the one
\* conversation; the history read for the frontend returns every stored
\* message of the conversation, in order, whatever the summary and
\* pruned_count are.
C26_MessagesKept ==
    [][/\ SummarizerReturns =>
              /\ msgs' = msgs
              /\ nextId' = nextId
              /\ Len(convs') = Len(convs)
              /\ \A c \in DOMAIN convs :
                     convs'[c] # convs[c] =>
                         \/ \E t \in Slots : turn[t].pc = "summarizing"
                                             /\ turn[t].conv = c
                         \/ worker.pc = "summarizing" /\ worker.conv = c
       /\ \A t \in Slots :
              (Taken(t, "history") /\ convs # <<>>) =>
                  LET hist == turn'[t].hist
                      rows == RowsOf(msgs, Len(convs))
                  IN  /\ turn'[t].conv = Len(convs)
                      /\ Len(hist) = Cardinality(rows)
                      /\ \A i \in rows :
                             LET k == Cardinality({ j \in rows : j <= i })
                             IN  /\ hist[k].text = msgs[i].text
                                 /\ hist[k].sender = msgs[i].sender
                                 /\ hist[k].timestamp = msgs[i].ts]_vars

\* a history request was answered with every stored message of a
\* conversation of which a committed summary covers some
C26_Witness ==
    \E t \in Slots :
        /\ turn[t].op = "history"
        /\ turn[t].pc = "done"
        /\ turn[t].conv # 0
        /\ convs[turn[t].conv].pruned_count > 0
        /\ ~convs[turn[t].conv].memory_summary.isNull
        /\ Len(turn[t].hist) = Cardinality(RowsOf(msgs, turn[t].conv))
        /\ Len(turn[t].hist) > convs[turn[t].conv].pruned_count


\* the messages that are stored before the step and no longer after it
Deleted == { i \in 1..Len(msgs) :
                \A j \in 1..Len(msgs') : msgs'[j].id # msgs[i].id }

\* C27: while a turn of a conversation is being answered, every message
\* of that conversation the nightly clearing deletes is at least ten
\* minutes old at the moment it is deleted.
C27_ActiveKept ==
    [][\A i \in Deleted :
           (\E t \in Slots : InCall(turn[t]) /\ turn[t].conv = msgs[i].conv)
               => msgs[i].ts <= now - ACTIVE_WINDOW]_vars


\* C28: every summary a re-summarization commits over the summary it
\* read, the placeholder of a failed summarizer call included, is
\* derived from that previous summary and the older messages.
C28_CarriesPrevious ==
    [][/\ \A t \in Slots :
             (/\ turn[t].pc = "summarizing"
              /\ turn'[t].pc = "generating"
              /\ SummaryTruthy(turn[t].read)
              /\ convs[turn[t].conv].memory_summary = turn[t].read) =>
                 /\ convs'[turn[t].conv].memory_summary # turn[t].read
                 /\ convs'[turn[t].conv].memory_summary.prev
       /\ (/\ worker.pc = "summarizing"
           /\ SummaryTruthy(worker.read)
           /\ convs[worker.conv].memory_summary = worker.read
           /\ convs'[worker.conv] # convs[worker.conv]) =>
              convs'[worker.conv].memory_summary.prev]_vars


\* the worker goes to the summarizer in this step
WorkerCalls ==
    /\ worker'.pc = "summarizing"
    /\ worker.pc = "summarizing" => worker'.run # worker.run

\* tokens(history) + tokens(existing summary) as the worker counts them
WorkerTotal(snap, read) ==
    count_messages_tokens_simple(snap) + count_tokens_simple(SummaryTextOf(read))

\* C29: the worker calls the summarizer for a conversation only when
\* tokens(history) + tokens(existing summary) is strictly above
\* TOKEN_THRESHOLD_FOR_SUMMARY; at the threshold itself it does not.
C29_StrictlyAbove ==
    [][WorkerCalls =>
           WorkerTotal(worker'.snap, worker'.read)
               > TOKEN_THRESHOLD_FOR_SUMMARY]_vars


\* the request task t takes in this step gets to
\* process_conversation_context
ReadsContext(t) ==
    /\ \E op \in {"send", "accept", "reject"} : Taken(t, op)
    /\ InCall(turn'[t])

\* the trigger fires for what task t reads in this step
TriggerFires(t) ==
    LET c == turn'[t].conv
    IN  should_summarize(count_messages_tokens(ConvMsgs(msgs', c)),
            count_tokens(SummaryTextOf(convs'[c].memory_summary)),
            count_tokens(NewMessageOf(turn'[t])), TOKEN_THRESHOLD)

\* C30: when the trigger fires for a turn that read at most
\* RECENT_MESSAGES_COUNT messages, the summarizer is not called, the
\* summary fields stay as they are and the context is every message
\* read, after the summary if there is one; the worker calls the
\* summarizer only for more than RECENT_MESSAGES_TO_KEEP messages and
\* writes nothing otherwise.
C30_ShortHistoryKept ==
    [][/\ \A t \in Slots :
             LET c == turn'[t].conv
                 all == ConvMsgs(msgs', c)
                 row == convs'[c]
             IN  (/\ ReadsContext(t)
                  /\ TriggerFires(t)
                  /\ Len(all) <= RECENT_MESSAGES_COUNT) =>
                     /\ turn'[t].pc = "generating"
                     /\ sumCalls' = sumCalls
                     /\ nextRun' = nextRun
                     /\ row = IF c \in DOMAIN convs THEN convs[c]
                              ELSE NewConversation
                     /\ turn'[t].ctx =
                            (IF SummaryTruthy(row.memory_summary)
                             THEN <<SummaryEntry(row.memory_summary)>>
                             ELSE <<>>)
                            \o [i \in 1..Len(all) |-> MsgEntry(all[i])]
       /\ WorkerCalls => Len(worker'.snap) > RECENT_MESSAGES_TO_KEEP
       /\ workerRuns' # workerRuns =>
              \A c \in DOMAIN convs :
                  Len(ConvMsgs(msgs, c)) <= RECENT_MESSAGES_TO_KEEP =>
                      /\ convs'[c] = convs[c]
                      /\ ~(worker'.pc = "summarizing" /\ worker'.conv = c)]_vars

\* a turn is at the generator with every one of the at most
\* RECENT_MESSAGES_COUNT messages of its conversation, which count more
\* tokens than the threshold, the worker has run, and no summarizer call
\* was made
C30_Witness ==
    \E t \in Slots :
        LET all == ConvMsgs(msgs, turn[t].conv)
        IN  /\ turn[t].pc = "generating"
            /\ Len(all) <= RECENT_MESSAGES_COUNT
            /\ count_messages_tokens(all) > TOKEN_THRESHOLD
            /\ Len(turn[t].ctx) = Len(all)
            /\ workerRuns > 0
            /\ sumCalls = <<>>
            /\ convs[turn[t].conv] = NewConversation


\* a result of type recommendation without title or without content
Malformed(g) == g.type = "recommendation" /\ ~WellFormed(g)

\* C31: on either transport, a result of type recommendation that lacks
\* title or content is answered as a chat reply with the content that is
\* there (the suggestion text when there is none): the reply is appended
\* as bot Messages and delivered as chat or chunk events, none of them a
\* recommendation (read for the turns whose write does not raise).
C31_DowngradedAndStored ==
    [][\A t \in Slots :
           (/\ Replied(t)
            /\ turn'[t].op = "send"
            /\ Malformed(turn'[t].res)
            /\ ~turn'[t].failed) =>
               LET r == turn'[t]
                   d == Delivered(SubSeq(r.out, Len(turn[t].out) + 1,
                                         Len(r.out)))
               IN  /\ d # <<>>
                   /\ \A i \in 1..Len(d) : d[i].type \in {"chat", "chunk"}
                   /\ Len(NewRows) = Len(d)
                   /\ \A i \in 1..Len(d) :
                          /\ NewRows[i].sender = "bot"
                          /\ NewRows[i].conv = r.conv
                          /\ NewRows[i].text = d[i].text]_vars


\* the events task t delivers in this step
NewEvents(t) ==
    IF Len(turn'[t].out) > Len(turn[t].out) /\ turn[t].pc # "done"
    THEN SubSeq(turn'[t].out, Len(turn[t].out) + 1, Len(turn'[t].out))
    ELSE IF turn'[t] # turn[t] /\ turn[t].pc \in {"idle", "done"}
    THEN turn'[t].out
    ELSE <<>>

\* the stored rows of the reply group g
GroupStored(store, g) == { j \in 1..Len(store) : store[j].grp = g }

\* C32: a reply is committed before it is delivered: every chat or chunk
\* event delivered with a message id refers to a bot Message with that
\* id and text that is stored when the event goes out, and when a chunk
\* event goes out every chunk of its reply is stored.
C32_StoredThenDelivered ==
    [][\A t \in Slots :
           \A i \in 1..Len(NewEvents(t)) :
               LET e == NewEvents(t)[i]
               IN  /\ (e.type \in {"chat", "chunk"} /\ e.mid # 0) =>
                          \E j \in 1..Len(msgs') :
                              /\ msgs'[j].id = e.mid
                              /\ msgs'[j].sender = "bot"
                              /\ msgs'[j].conv = turn'[t].conv
                              /\ msgs'[j].text = e.text
                   /\ e.type = "chunk" =>
                          /\ Cardinality(GroupStored(msgs', e.grp)) = e.total
                          /\ \E j \in GroupStored(msgs', e.grp) :
                                 /\ msgs'[j].idx = e.idx
                                 /\ msgs'[j].text = e.text]_vars

\* a reply was delivered in two or more chunks with their message ids
\* and every chunk of it is stored
C32_Witness ==
    \E t \in Slots :
        /\ turn[t].pc = "done"
        /\ \E i \in 1..Len(turn[t].out) :
               /\ turn[t].out[i].type = "chunk"
               /\ turn[t].out[i].mid # 0
               /\ turn[t].out[i].total >= 2
               /\ Cardinality(GroupStored(msgs, turn[t].out[i].grp))
                      = turn[t].out[i].total


\* task t handles a send request that passed the validation
SendAccepted(t) ==
    /\ turn[t].op = "send"
    /\ turn[t].pc # "idle"
    /\ Validate(turn[t].tr, turn[t].x, turn[t].files) = "ok"

\* task t is through and has delivered a reply or an error
Answered(t) ==
    /\ turn[t].pc = "done"
    /\ \E i \in 1..Len(turn[t].out) :
           turn[t].out[i].type \in DeliveryTypes \cup {"error"}

\* C33: every send turn that passed the validation ends having delivered
\* a chat message, chunks, a recommendation or an error, whatever the
\* summarizer, the generator and the commits do, as long as every call
\* returns or raises.
C33_EventuallyAnswered ==
    \A t \in Slots : SendAccepted(t) ~> Answered(t)

\* a send turn whose generator call raised and whose reply could not be
\* written has delivered a reply all the same
C33_Witness ==
    \E t \in Slots :
        /\ SendAccepted(t)
        /\ Answered(t)
        /\ turn[t].failed
        /\ turn[t].res.type \in {"raise", "chat"}


\* no first turn is between its query for the latest conversation and
\* the commit of the conversation it creates
FirstTurnsCommitted == \A u \in Slots : turn[u].pc # "resolving"

\* C34: once the first turns of a user have committed, however many
\* conversations they created, every request that starts resolves to the
\* conversation with the highest id and no further conversation is
\* created.
C34_LatestConversation ==
    [][(FirstTurnsCommitted /\ convs # <<>>) =>
           /\ Len(convs') = Len(convs)
           /\ \A t \in Slots :
                  (/\ \E op \in {"send", "accept", "reject", "history"} :
                         Taken(t, op)
                   /\ turn'[t].conv # 0) =>
                      /\ turn'[t].conv = Len(convs)
                      /\ \A i \in 1..Len(NewRows) :
                             NewRows[i].conv = Len(convs)]_vars

\* two first turns have created a conversation each and stored their
\* message in it, and a later send turn has stored its message in the
\* second one
C34_Witness ==
    /\ Len(convs) = 2
    /\ FirstTurnsCommitted
    /\ Len(SelectSeq(ConvMsgs(msgs, 1), LAMBDA m : m.sender = "user")) = 1
    /\ Len(SelectSeq(ConvMsgs(msgs, 2), LAMBDA m : m.sender = "user")) >= 2


\* C35: a history read returns the rows of the conversation in the order
\* they were inserted, rows of equal timestamps included: in what the
\* query returns, the ids go up
C35_AppendOrder ==
    (args.fn = "order_by_timestamp" /\ ret.done) =>
        \A i, j \in 1..Len(ret.context) :
            i < j => ret.context[i].id < ret.context[j].id


\* the sentences without the whitespace that ends them, one after the
\* other; a sentence that is whitespace only leaves nothing
Solid(ss) ==
    LET kept == SelectSeq(ss, LAMBDA sentence : sentence.len > sentence.ws)
    IN  [i \in 1..Len(kept) |-> kept[i].len - kept[i].ws]

\* C36: split_into_chunks loses, repeats and moves no character other
\* than whitespace: the chunks, one after the other, have the sentences of
\* the text, each once and in the order of the text, up to the whitespace
\* that was stripped from the end of a chunk
C36_NothingLost ==
    Split => Solid(Joined(ret.chunks)) = Solid(args.text.sents)

\* a text has been split into several chunks and whitespace between them
\* was stripped
C36_Witness ==
    /\ Split
    /\ Len(ret.chunks) > 1
    /\ Joined(ret.chunks) # args.text.sents
    /\ Solid(Joined(ret.chunks)) = Solid(args.text.sents)


\* C37: in every committed state the three summary fields of a
\* conversation agree: memory_summary is NULL exactly when pruned_count is
\* 0 and exactly when last_summary_at is NULL, and a summary that is
\* stored was made of as many messages as the stored pruned_count says,
\* by the run that wrote that count
C37_FieldsAgree ==
    \A c \in 1..Len(convs) :
        /\ convs[c].memory_summary.isNull <=> convs[c].pruned_count = 0
        /\ convs[c].pruned_count = 0 <=> convs[c].last_summary_at = -1
        /\ ~convs[c].memory_summary.isNull =>
               convs[c].memory_summary.n = convs[c].pruned_count


\* the total of the trigger check of task t in this step with the message
\* of the turn counted once, as the last row of the history
OnceInHistory(t) ==
    LET c == turn'[t].conv
    IN  count_messages_tokens(ConvMsgs(msgs', c))
            + count_tokens(SummaryTextOf(convs'[c].memory_summary))

\* the same with the message of the turn counted once, as the new message
\* on top of the rows before it
OnceAsNew(t) ==
    LET c == turn'[t].conv
        all == ConvMsgs(msgs', c)
    IN  count_messages_tokens(SubSeq(all, 1, Len(all) - 1))
            + count_tokens(SummaryTextOf(convs'[c].memory_summary))
            + count_tokens(NewMessageOf(turn'[t]))

\* C38: in the trigger check of a send turn the tokens of the message of
\* the turn count once: for a history of more than RECENT_MESSAGES_COUNT
\* rows the summarizer is called exactly when the total with the message
\* counted once, in the history or as the new message, is above
\* TOKEN_THRESHOLD
C38_CountedOnce ==
    [][\A t \in Slots :
          (/\ Taken(t, "send")
           /\ InCall(turn'[t])
           /\ Len(ConvMsgs(msgs', turn'[t].conv)) > RECENT_MESSAGES_COUNT) =>
              \/ turn'[t].pc = "summarizing"
                     <=> OnceInHistory(t) > TOKEN_THRESHOLD
              \/ turn'[t].pc = "summarizing"
                     <=> OnceAsNew(t) > TOKEN_THRESHOLD]_vars


\* the chunk events task t delivers in this step
NewChunkEvents(t) == SelectSeq(NewEvents(t), LAMBDA e : e.type = "chunk")

\* C39: a reply of n chunks goes out as n chunk events, in the order of
\* chunk_index 0, 1, ..., n - 1, all with the group id of the reply and
\* total_chunks = n, and is_final is set on the last of them and on no
\* other; n is the number of rows stored for the group
C39_ChunkEventsInOrder ==
    [][\A t \in Slots :
           LET evs == NewChunkEvents(t)
           IN  evs # <<>> =>
                   LET n == Cardinality(GroupStored(msgs', evs[1].grp))
                   IN  /\ Len(evs) = n
                       /\ \A i \in 1..Len(evs) :
                              /\ evs[i].idx = i - 1
                              /\ evs[i].total = n
                              /\ evs[i].grp = evs[1].grp
                              /\ evs[i].final <=> i = n]_vars

\* a reply was streamed over HTTP in two or more chunk events, the last
\* of them marked final
C39_Witness ==
    \E t \in Slots :
        /\ turn[t].pc = "done" /\ turn[t].tr = "http"
        /\ \E i \in 1..Len(turn[t].out) :
               /\ turn[t].out[i].type = "chunk"
               /\ turn[t].out[i].idx >= 1
               /\ turn[t].out[i].idx = turn[t].out[i].total - 1
               /\ turn[t].out[i].final


\* C40: whatever runs overlap, the nightly clearing included, pruned_count
\* of a conversation is at most the number of its stored messages, and a
\* conversation without stored messages has no summary and pruned_count 0
C40_CountWithinStore ==
    \A c \in 1..Len(convs) :
        /\ convs[c].pruned_count <= Len(ConvMsgs(msgs, c))
        /\ ConvMsgs(msgs, c) = <<>> =>
               /\ convs[c].memory_summary.isNull
               /\ convs[c].pruned_count = 0


====
